---- MODULE Spec2Model ----
(***************************************************************************)
(* Model of the proposal PDF generator (OpianKyle/FormulatePDF).           *)
(*                                                                         *)
(* Numbers of the program are IEEE doubles; the model computes with exact  *)
(* rationals <<numerator, denominator>> in lowest terms, so that the       *)
(* formulas of the projection are checked as arithmetic identities.        *)
(***************************************************************************)
EXTENDS Integers, Sequences, FiniteSets, TLC

VARIABLES
    proposal,       \* the stored proposal record read by the PDF route / shown in the form
    pdfFigures,     \* figures computed by the PDF route (routes.ts), or NoFigures
    panelFigures,   \* figures computed by calculateInvestmentProjections, or NoFigures
    flowFigures,    \* figures computed by the page-flow variant of the route, or NoFigures
    text,           \* the string handed to the text layout operation
    maxWidth,       \* its maxWidth argument
    kern,           \* the font's kerning of the pair (space, W), in 1/1000 em
    op,             \* the text layout operation that has run, or "none"
    lines,          \* the lines produced by its wrap loop
    drawn,          \* the drawText calls it made on the page, in order
    yOut,           \* the y it returned
    request,        \* what a PDF request meets: the stored proposal's texts, the image files
    pc,             \* position of the PDF request handler
    coverImage,     \* the embedded cover image, or Missing
    logoImage,      \* the embedded logo image, or Missing
    signatureImage, \* the embedded signature image, or Missing
    pages,          \* the pages of pdfDoc, each the sequence of its drawing operations
    currentPage,    \* index in pages of the page being drawn
    yPos,           \* the vertical cursor
    response,       \* the response sent, or NoResponse
    sent,           \* number of responses the PDF request handler has sent
    store,          \* MemStorage.proposals: the stored proposals in insertion order
    lastCreate,     \* the last create request and the response it got, or NoCreate
    lookup,         \* what the last storage read returned, or NoLookup
    handlers,       \* local state of each of the concurrent PDF requests
    formValues,     \* form.getValues(): the values in the proposal form
    currentProposalId, \* the form's state currentProposalId, or Null
    clicks,         \* the runs of onSubmit, handlePreview and handleGenerate, in click order
    pdfRequests,    \* the requests POST /api/proposals/:id/pdf the form has issued
    lastEvent       \* the last thing that happened to the form

calcVars == <<proposal, pdfFigures, panelFigures, flowFigures>>

wrapVars == <<text, maxWidth, kern, op, lines, drawn, yOut>>

docVars == <<request, pc, coverImage, logoImage, signatureImage,
             pages, currentPage, yPos, response, sent>>

serverVars == <<store, lastCreate, lookup, handlers>>

formVars == <<formValues, currentProposalId, clicks, pdfRequests, lastEvent>>

vars == <<proposal, pdfFigures, panelFigures, flowFigures,
          text, maxWidth, kern, op, lines, drawn, yOut,
          request, pc, coverImage, logoImage, signatureImage,
          pages, currentPage, yPos, response, sent,
          store, lastCreate, lookup, handlers,
          formValues, currentProposalId, clicks, pdfRequests, lastEvent>>

\* figures not computed yet
NoFigures == [computed |-> FALSE]

\* an absent (undefined) number of a partial form
Undefined == <<>>

(***************************************************************************)
(* Exact rational arithmetic.                                              *)
(***************************************************************************)
RECURSIVE GCD(_, _)
GCD(a, b) == IF b = 0 THEN a ELSE GCD(b, a % b)

Abs(n) == IF n < 0 THEN -n ELSE n

\* the rational n/d (d > 0) in lowest terms
Rat(n, d) ==
    LET g == GCD(Abs(n), d)
    IN  IF n = 0 THEN <<0, 1>> ELSE <<n \div g, d \div g>>

Num(n) == <<n, 1>>

\* sums over the least common denominator, keeps the intermediate integers small
RAdd(p, q) ==
    LET g == GCD(p[2], q[2])
    IN  Rat(p[1] * (q[2] \div g) + q[1] * (p[2] \div g), (p[2] \div g) * q[2])

RSub(p, q) == RAdd(p, <<-q[1], q[2]>>)

\* cross-reduced product, keeps the intermediate integers small
RMul(p, q) ==
    LET g1 == GCD(Abs(p[1]), q[2])
        g2 == GCD(Abs(q[1]), p[2])
    IN  IF p[1] = 0 \/ q[1] = 0 THEN <<0, 1>>
        ELSE <<(p[1] \div g1) * (q[1] \div g2), (p[2] \div g2) * (q[2] \div g1)>>

\* p / q for q > 0
RDiv(p, q) == RMul(p, <<q[2], q[1]>>)

RLess(p, q) == p[1] * q[2] < q[1] * p[2]

RPositive(p) == p[1] > 0

(***************************************************************************)
(* Number.prototype.toFixed(digits) for a non-negative number: the integer *)
(* n for which n / 10^digits is closest to x, the larger one on a tie.     *)
(* The result is the pair <<integer part, fraction digits as a number>>.   *)
(***************************************************************************)
Pow10(k) == IF k = 0 THEN 1 ELSE IF k = 1 THEN 10 ELSE IF k = 2 THEN 100 ELSE 1000

toFixed(x, digits) ==
    LET n == (2 * x[1] * Pow10(digits) + x[2]) \div (2 * x[2])
    IN  <<n \div Pow10(digits), n % Pow10(digits)>>

(***************************************************************************)
(* Proposal records.  Dividends are per-share rates given in thousandths.  *)
(***************************************************************************)
Amounts == {1000, 1001, 2500, 150000}

TargetReturns == {1, 72}

TimeHorizons == {1, 3}

Dividends == {Num(0), Rat(1440, 1000), Rat(1888, 1000), Rat(2378, 1000)}

ProposalRecords ==
    [investmentAmount : {Num(a) : a \in Amounts},
     targetReturn     : {Num(t) : t \in TargetReturns},
     timeHorizon      : TimeHorizons,
     year1Dividend    : Dividends,
     year2Dividend    : Dividends,
     year3Dividend    : Dividends]

\* the record of the end-to-end scenario
ScenarioRecord ==
    [investmentAmount |-> Num(150000), targetReturn |-> Num(72), timeHorizon |-> 3,
     year1Dividend |-> Rat(1440, 1000), year2Dividend |-> Rat(1888, 1000),
     year3Dividend |-> Rat(2378, 1000)]

\* price of one share in the projections
SharePrice == 8

(***************************************************************************)
(* PDF route, projection calculations (server/routes.ts).                  *)
(***************************************************************************)
\* variant: shares obtained by multiplying by the share price
SharesIssuedTimesPrice(p) == RMul(p.investmentAmount, Num(SharePrice))

SharesIssued(p) == RDiv(p.investmentAmount, Num(SharePrice))

\* variant: second-year growth taken against the original principal
Year2GrowthOnPrincipal(p, year2Return, year1Value) ==
    RMul(RDiv(year2Return, p.investmentAmount), Num(100))

Year2Growth(p, year2Return, year1Value) ==
    RMul(RDiv(year2Return, year1Value), Num(100))

RouteFigures(p) ==
    LET sharesIssued == SharesIssued(p)
        year1Return  == RMul(sharesIssued, p.year1Dividend)
        year2Return  == RMul(sharesIssued, p.year2Dividend)
        year3Return  == RMul(sharesIssued, p.year3Dividend)
        year1Value   == RAdd(p.investmentAmount, year1Return)
        year2Value   == RAdd(year1Value, year2Return)
        year3Value   == RAdd(year2Value, year3Return)
        year1Growth  == RMul(RDiv(year1Return, p.investmentAmount), Num(100))
        year2Growth  == Year2Growth(p, year2Return, year1Value)
        year3Growth  == RMul(RDiv(year3Return, year2Value), Num(100))
        targetValue  == RMul(p.investmentAmount,
                             RAdd(Num(1), RDiv(p.targetReturn, Num(100))))
        totalProfit  == RSub(targetValue, p.investmentAmount)
    IN  [computed |-> TRUE, sharesIssued |-> sharesIssued,
         year1Return |-> year1Return, year2Return |-> year2Return,
         year3Return |-> year3Return,
         year1Value |-> year1Value, year2Value |-> year2Value,
         year3Value |-> year3Value,
         year1Growth |-> year1Growth, year2Growth |-> year2Growth,
         year3Growth |-> year3Growth,
         targetValue |-> targetValue, totalProfit |-> totalProfit]

(***************************************************************************)
(* PDF route, the figures as printed.  A printed figure is what it is      *)
(* (currency, percentage, rate, count), the text before the number, whether *)
(* the number is printed with grouping separators, the number of its       *)
(* decimals, and the text after the number.                                *)
(***************************************************************************)
\* decimals left of a fraction given in thousandths when the zeros at its end
\* are not printed
FractionDigits(thousandths) ==
    IF thousandths = 0 THEN 0
    ELSE IF thousandths % 100 = 0 THEN 1
    ELSE IF thousandths % 10 = 0 THEN 2
    ELSE 3

\* Number.prototype.toLocaleString(): grouping separators, at most three
\* decimals, none of them a zero at the end
LocaleString(x) == [grouped |-> TRUE, decimals |-> FractionDigits(toFixed(x, 3)[2])]

\* `${x}` of a number that has at most three decimals: no grouping, the
\* decimals it has
TemplateString(x) == [grouped |-> FALSE, decimals |-> FractionDigits(toFixed(x, 3)[2])]

\* x.toFixed(digits): no grouping, digits decimals whatever x is
FixedString(digits) == [grouped |-> FALSE, decimals |-> digits]

Printed(what, before, number, after) ==
    [what |-> what, before |-> before, grouped |-> number.grouped,
     decimals |-> number.decimals, after |-> after]

\* const highlights: the figures of the first bullet
Highlights(p, f) ==
    <<Printed("percentage", "", TemplateString(p.targetReturn), "%"),
      Printed("currency", "R", LocaleString(f.totalProfit), ""),
      Printed("percentage", "~", FixedString(1), "%")>>

\* const tableData: the figures of the investment structure table
TableData(p, f) ==
    <<Printed("currency", "R", LocaleString(p.investmentAmount), ",00"),
      Printed("currency", "R", LocaleString(f.targetValue), ",00"),
      Printed("percentage", "", TemplateString(p.targetReturn), "%"),
      Printed("percentage", "~", FixedString(0), "%")>>

\* a row of cashFlowData for a year after year 0
CashFlowRow(f, dividendReturn, growth, value) ==
    <<Printed("count", "", LocaleString(Num(toFixed(f.sharesIssued, 0)[1])), ""),
      Printed("rate", "", FixedString(3), ""),
      Printed("currency", "R", LocaleString(dividendReturn), ",00"),
      Printed("percentage", "", FixedString(2), "%"),
      Printed("currency", "R", LocaleString(value), ",00")>>

\* const cashFlowData: the figures of the cash flow table
CashFlowData(p, f) ==
    <<Printed("currency", "R", LocaleString(p.investmentAmount), ",00")>>
        \o CashFlowRow(f, f.year1Return, f.year1Growth, f.year1Value)
        \o CashFlowRow(f, f.year2Return, f.year2Growth, f.year2Value)
        \o CashFlowRow(f, f.year3Return, f.year3Growth, f.year3Value)

(***************************************************************************)
(* Live panel (client/src/pages/home.tsx, calculateInvestmentProjections). *)
(* `v || d` yields d when v is undefined or 0.                           *)
(***************************************************************************)
OrDefault(v, d) == IF v = Undefined \/ v = Num(0) THEN d ELSE v

calculateInvestmentProjections(formData) ==
    LET investmentAmount == OrDefault(formData.investmentAmount, Num(0))
        targetReturn     == OrDefault(formData.targetReturn, Num(0))
        year1Dividend    == OrDefault(formData.year1Dividend, Num(0))
        year2Dividend    == OrDefault(formData.year2Dividend, Num(0))
        year3Dividend    == OrDefault(formData.year3Dividend, Num(0))
        sharesIssued == RDiv(investmentAmount, Num(SharePrice))
        year1Return  == RMul(sharesIssued, year1Dividend)
        year1Value   == RAdd(investmentAmount, year1Return)
        year1Growth  == IF RPositive(investmentAmount)
                        THEN RMul(RDiv(year1Return, investmentAmount), Num(100))
                        ELSE Num(0)
        year2Return  == RMul(sharesIssued, year2Dividend)
        year2Value   == RAdd(year1Value, year2Return)
        year2Growth  == IF RPositive(year1Value)
                        THEN RMul(RDiv(year2Return, year1Value), Num(100))
                        ELSE Num(0)
        year3Return  == RMul(sharesIssued, year3Dividend)
        year3Value   == RAdd(year2Value, year3Return)
        year3Growth  == IF RPositive(year2Value)
                        THEN RMul(RDiv(year3Return, year2Value), Num(100))
                        ELSE Num(0)
        targetValue  == year3Value
        totalProfit  == RSub(targetValue, investmentAmount)
        calculatedTargetReturn ==
            IF RPositive(investmentAmount)
            THEN RMul(RDiv(RSub(targetValue, investmentAmount), investmentAmount), Num(100))
            ELSE Num(0)
    IN  [computed |-> TRUE, sharesIssued |-> sharesIssued,
         year1Return |-> year1Return, year2Return |-> year2Return,
         year3Return |-> year3Return,
         year1Value |-> year1Value, year2Value |-> year2Value,
         year3Value |-> year3Value,
         year1Growth |-> year1Growth, year2Growth |-> year2Growth,
         year3Growth |-> year3Growth,
         targetValue |-> targetValue, totalProfit |-> totalProfit,
         calculatedTargetReturn |-> calculatedTargetReturn]

(***************************************************************************)
(* Page-flow variant of the route: the "Calculations" block.               *)
(***************************************************************************)
FlowFigures(p) ==
    LET targetValue  == RMul(p.investmentAmount,
                             RAdd(Num(1), RDiv(p.targetReturn, Num(100))))
        sharesIssued == RDiv(p.investmentAmount, Num(SharePrice))
        year1Return  == RMul(sharesIssued, p.year1Dividend)
        year2Return  == RMul(sharesIssued, p.year2Dividend)
        year3Return  == RMul(sharesIssued, p.year3Dividend)
        year1Value   == RAdd(p.investmentAmount, year1Return)
        year2Value   == RAdd(year1Value, year2Return)
        year3Value   == RAdd(year2Value, year3Return)
    IN  [computed |-> TRUE, targetValue |-> targetValue, sharesIssued |-> sharesIssued,
         year1Return |-> year1Return, year2Return |-> year2Return,
         year3Return |-> year3Return,
         year1Value |-> year1Value, year2Value |-> year2Value,
         year3Value |-> year3Value]

(***************************************************************************)
(* Text.  A string is a sequence of one-character strings.                 *)
(***************************************************************************)
Space == " "

Tab == "\t"

Chars == {"i", "W", Space, Tab}

\* the characters matched by \s
IsWhitespace(c) == c \in {Space, Tab, "\n"}

\* String.prototype.split(" "): the pieces between single spaces, empty
\* pieces included; the empty string splits into one empty piece
RECURSIVE Split(_)
Split(str) ==
    IF str = <<>> THEN << <<>> >>
    ELSE LET rest == Split(Tail(str))
         IN  IF Head(str) = Space
             THEN << <<>> >> \o rest
             ELSE << <<Head(str)>> \o Head(rest) >> \o Tail(rest)

\* Array.prototype.join(" ")
RECURSIVE Join(_)
Join(words) ==
    IF words = <<>> THEN <<>>
    ELSE IF Len(words) = 1 THEN Head(words)
    ELSE Head(words) \o <<Space>> \o Join(Tail(words))

RECURSIVE DropLeadingWhitespace(_)
DropLeadingWhitespace(str) ==
    IF str # <<>> /\ IsWhitespace(Head(str)) THEN DropLeadingWhitespace(Tail(str)) ELSE str

RECURSIVE DropTrailingWhitespace(_)
DropTrailingWhitespace(str) ==
    IF str # <<>> /\ IsWhitespace(str[Len(str)])
    THEN DropTrailingWhitespace(SubSeq(str, 1, Len(str) - 1))
    ELSE str

\* String.prototype.trim()
Trim(str) == DropTrailingWhitespace(DropLeadingWhitespace(str))

\* str.replace(/\s+/g, " ")
RECURSIVE CollapseWhitespace(_)
CollapseWhitespace(str) ==
    IF str = <<>> THEN <<>>
    ELSE IF IsWhitespace(Head(str))
         THEN <<Space>> \o CollapseWhitespace(DropLeadingWhitespace(Tail(str)))
         ELSE <<Head(str)>> \o CollapseWhitespace(Tail(str))

\* variant: the text is wrapped as given
KeepWhitespace(str) == str

\* text.replace(/\s+/g, " ").trim()
NormalizeSpacing(str) == Trim(CollapseWhitespace(str))

(***************************************************************************)
(* Font metric: font.widthOfTextAtSize(text, size) of the embedded         *)
(* standard font is the sum of the glyph advance widths plus the kerning   *)
(* of each adjacent glyph pair, in 1/1000 em, scaled by size / 1000.       *)
(***************************************************************************)
GlyphWidth(c) == IF c = "i" THEN 222 ELSE IF c = "W" THEN 944 ELSE 278

KerningForPair(left, right, k) == IF left = Space /\ right = "W" THEN k ELSE 0

RECURSIVE GlyphUnits(_, _)
GlyphUnits(str, k) ==
    IF str = <<>> THEN 0
    ELSE GlyphWidth(Head(str))
         + (IF Len(str) > 1 THEN KerningForPair(str[1], str[2], k) ELSE 0)
         + GlyphUnits(Tail(str), k)

widthOfTextAtSize(str, fontSize, k) == Rat(GlyphUnits(str, k) * fontSize, 1000)

(***************************************************************************)
(* drawJustifiedText (page-flow variant of the route) and its earlier      *)
(* variant.  A line is a sequence of words.                                *)
(***************************************************************************)
\* variant: the line is measured with a space after the appended word
TestLineWidthPadded(currentLine, word, fontSize, k) ==
    widthOfTextAtSize(Join(Append(currentLine, word)) \o <<Space>>, fontSize, k)

\* variant: only the next word is measured
WordWidthOnly(currentLine, word, fontSize, k) == widthOfTextAtSize(word, fontSize, k)

\* width of the current line with the word appended
TestLineWidth(currentLine, word, fontSize, k) ==
    widthOfTextAtSize(Join(Append(currentLine, word)), fontSize, k)

RECURSIVE WrapWords(_, _, _, _, _, _)
WrapWords(words, acc, currentLine, width, fontSize, k) ==
    IF words = <<>>
    THEN IF Len(currentLine) > 0 THEN Append(acc, currentLine) ELSE acc
    ELSE LET word      == Head(words)
             testLine  == Append(currentLine, word)
             textWidth == TestLineWidth(currentLine, word, fontSize, k)
         IN  IF RLess(Num(width), textWidth) /\ Len(currentLine) > 0
             THEN WrapWords(Tail(words), Append(acc, currentLine), <<word>>, width, fontSize, k)
             ELSE WrapWords(Tail(words), acc, testLine, width, fontSize, k)

\* the lines of the wrap loop of drawJustifiedText
WrapLines(str, width, fontSize, k) ==
    WrapWords(Split(NormalizeSpacing(str)), <<>>, <<>>, width, fontSize, k)

\* variant: the extra space is taken as what the line has over maxWidth
JustifyGapSwapped(lineWords, width, fontSize, k) ==
    LET lineWidth        == widthOfTextAtSize(Join(lineWords), fontSize, k)
        normalSpaceWidth == widthOfTextAtSize(<<Space>>, fontSize, k)
        extraSpacePerGap == RDiv(RSub(lineWidth, Num(width)), Num(Len(lineWords) - 1))
    IN  RAdd(normalSpaceWidth, extraSpacePerGap)

\* what cursorX gains after a word besides the word's own width
JustifyGap(lineWords, width, fontSize, k) ==
    LET lineWidth         == widthOfTextAtSize(Join(lineWords), fontSize, k)
        normalSpaceWidth  == widthOfTextAtSize(<<Space>>, fontSize, k)
        totalNormalSpaces == RMul(normalSpaceWidth, Num(Len(lineWords) - 1))
        totalWordWidth    == RSub(lineWidth, totalNormalSpaces)
        extraSpaceNeeded  == RSub(RSub(Num(width), totalWordWidth), totalNormalSpaces)
        extraSpacePerGap  == RDiv(extraSpaceNeeded, Num(Len(lineWords) - 1))
    IN  RAdd(normalSpaceWidth, extraSpacePerGap)

\* the same in the earlier variant
JustifyGapEarlier(lineWords, width, fontSize, k) ==
    LET lineWidth  == widthOfTextAtSize(Join(lineWords), fontSize, k)
        extraSpace == RDiv(RSub(Num(width), lineWidth), Num(Len(lineWords) - 1))
    IN  extraSpace

DrawText(str, x, y) == [text |-> str, x |-> x, y |-> y]

\* one drawText per word of a justified line
RECURSIVE DrawWords(_, _, _, _, _, _)
DrawWords(lineWords, cursorX, y, gap, fontSize, k) ==
    IF lineWords = <<>> THEN <<>>
    ELSE <<DrawText(Head(lineWords), cursorX, y)>>
         \o DrawWords(Tail(lineWords),
                      RAdd(cursorX, RAdd(widthOfTextAtSize(Head(lineWords), fontSize, k), gap)),
                      y, gap, fontSize, k)

\* lines.forEach((lineWords, i) => ...), from line i on
RECURSIVE DrawLines(_, _, _, _, _, _, _, _, _)
DrawLines(all, i, x, y, width, fontSize, lineSpacing, k, earlier) ==
    IF i > Len(all) THEN <<>>
    ELSE LET lineWords == all[i]
             ops == IF i = Len(all) \/ Len(lineWords) = 1
                    THEN <<DrawText(Join(lineWords), Num(x), y)>>
                    ELSE DrawWords(lineWords, Num(x), y,
                                   IF earlier THEN JustifyGapEarlier(lineWords, width, fontSize, k)
                                              ELSE JustifyGap(lineWords, width, fontSize, k),
                                   fontSize, k)
         IN  ops \o DrawLines(all, i + 1, x, y - lineSpacing, width, fontSize, lineSpacing, k, earlier)

\* drawJustifiedText(page, text, x, y, maxWidth, font, fontSize, lineSpacing):
\* the lines, the drawText calls and the returned y
drawJustifiedText(str, x, y, width, fontSize, lineSpacing, k, earlier) ==
    LET all == WrapLines(str, width, fontSize, k)
    IN  [lines |-> all,
         drawn |-> DrawLines(all, 1, x, y, width, fontSize, lineSpacing, k, earlier),
         y     |-> y - Len(all) * lineSpacing]

(***************************************************************************)
(* wrapText (three-page route).  A line is a string.                       *)
(***************************************************************************)
RECURSIVE WrapTextLoop(_, _, _, _, _)
WrapTextLoop(words, acc, currentLine, width, charWidth) ==
    IF words = <<>>
    THEN IF currentLine # <<>> THEN Append(acc, currentLine) ELSE acc
    ELSE LET word     == Head(words)
             testLine == currentLine \o (IF currentLine # <<>> THEN <<Space>> ELSE <<>>) \o word
         IN  IF RLess(Num(width), RMul(Num(Len(testLine)), charWidth))
             THEN IF currentLine # <<>>
                  THEN WrapTextLoop(Tail(words), Append(acc, currentLine), word, width, charWidth)
                  ELSE WrapTextLoop(Tail(words), Append(acc, word), currentLine, width, charWidth)
             ELSE WrapTextLoop(Tail(words), acc, testLine, width, charWidth)

wrapText(str, width, fontSize) ==
    WrapTextLoop(Split(str), <<>>, <<>>, width, Rat(fontSize * 6, 10))

\* lines.forEach((line) => { page.drawText(line, {x, y: yPos}); yPos -= step })
RECURSIVE DrawEachLine(_, _, _, _)
DrawEachLine(all, x, y, step) ==
    IF all = <<>> THEN <<>>
    ELSE <<DrawText(Head(all), Num(x), y)>> \o DrawEachLine(Tail(all), x, y - step, step)

(***************************************************************************)
(* Specification of the text layout operations: one operation is applied   *)
(* to a text, a maxWidth and a font metric.                                *)
(***************************************************************************)
\* longest text laid out
MaxLen == 6

MaxWidths == {8, 13, 20}

Kernings == {0, -40}

Texts == UNION {[1..n -> Chars] : n \in 0..MaxLen}

\* left margin and content start of the page-flow variant
FlowLeftMargin == 50

FlowTop == 750

DefaultFontSize == 10

DefaultLineSpacing == 14

WrapInit ==
    /\ text \in Texts
    /\ maxWidth \in MaxWidths
    /\ kern \in Kernings
    /\ op = "none"
    /\ lines = <<>>
    /\ drawn = <<>>
    /\ yOut = FlowTop

\* yPos = drawJustifiedText(currentPage, text, leftMargin, yPos, maxWidth, font, 10)
DrawJustified ==
    /\ op = "none"
    /\ LET r == drawJustifiedText(text, FlowLeftMargin, yOut, maxWidth,
                                  DefaultFontSize, DefaultLineSpacing, kern, FALSE)
       IN  lines' = r.lines /\ drawn' = r.drawn /\ yOut' = r.y
    /\ op' = "drawJustifiedText"
    /\ UNCHANGED <<text, maxWidth, kern>>
    /\ UNCHANGED calcVars
    /\ UNCHANGED docVars
    /\ UNCHANGED serverVars
    /\ UNCHANGED formVars

\* the same call in the earlier variant of the route
DrawJustifiedEarlier ==
    /\ op = "none"
    /\ LET r == drawJustifiedText(text, FlowLeftMargin, yOut, maxWidth,
                                  DefaultFontSize, DefaultLineSpacing, kern, TRUE)
       IN  lines' = r.lines /\ drawn' = r.drawn /\ yOut' = r.y
    /\ op' = "drawJustifiedTextEarlier"
    /\ UNCHANGED <<text, maxWidth, kern>>
    /\ UNCHANGED calcVars
    /\ UNCHANGED docVars
    /\ UNCHANGED serverVars
    /\ UNCHANGED formVars

\* const lines = wrapText(text, maxWidth); lines.forEach(draw; yPos -= 14)
WrapAndDraw ==
    /\ op = "none"
    /\ lines' = wrapText(text, maxWidth, DefaultFontSize)
    /\ drawn' = DrawEachLine(lines', FlowLeftMargin, yOut, DefaultLineSpacing)
    /\ yOut' = yOut - Len(lines') * DefaultLineSpacing
    /\ op' = "wrapText"
    /\ UNCHANGED <<text, maxWidth, kern>>
    /\ UNCHANGED calcVars
    /\ UNCHANGED docVars
    /\ UNCHANGED serverVars
    /\ UNCHANGED formVars

(***************************************************************************)
(* Drawing operations.  A page is the sequence of the operations drawn on  *)
(* it.  Coordinates of texts, lines and rectangles are integers (points,   *)
(* origin bottom-left); those of images are rationals.  `block` names the  *)
(* part of the document the operation belongs to.                          *)
(***************************************************************************)
Text(block, x, y, size) ==
    [kind |-> "text", block |-> block, x |-> x, y |-> y, x2 |-> x, y2 |-> y, size |-> size]

Line(block, x1, y1, x2, y2) ==
    [kind |-> "line", block |-> block, x |-> x1, y |-> y1, x2 |-> x2, y2 |-> y2, size |-> 1]

Rectangle(block, x, y, width, height) ==
    [kind |-> "rect", block |-> block, x |-> x, y |-> y,
     x2 |-> x + width, y2 |-> y + height, size |-> 1]

Image(block, x, y, width, height) ==
    [kind |-> "image", block |-> block, x |-> x, y |-> y,
     x2 |-> RAdd(x, width), y2 |-> RAdd(y, height), size |-> 0]

\* an image that could not be loaded
Missing == [loaded |-> FALSE]

\* an embedded image and its pixel size
Embedded(width, height) == [loaded |-> TRUE, width |-> width, height |-> height]

\* an embedded image whose pixel size the code never reads
Loaded == [loaded |-> TRUE]

NoResponse == [status |-> 0]

\* A4 in points
PageWidth == Rat(59528, 100)

PageHeight == Rat(84189, 100)

\* count texts at x, starting at y, step apart: lines.forEach(draw; yPos -= step)
TextLines(block, x, y, size, count, step) ==
    [i \in 1..count |-> Text(block, x, y - (i - 1) * step, size)]

(***************************************************************************)
(* Three-page route (server/routes.ts): cover page, footer, tables.        *)
(***************************************************************************)
RouteLeftMargin == 40

(***************************************************************************)
(* The numbers of the cover page are JavaScript numbers: binary floating    *)
(* point with 53 significant bits, every operation rounded to nearest, ties *)
(* to even.  A binary number is neg, m, e: the value is m * 2^e, negated    *)
(* when neg; m is a sequence of bits, least significant first, with first   *)
(* and last bit 1, and empty for zero.                                      *)
(***************************************************************************)
RECURSIVE BitsOf(_)
BitsOf(n) == IF n = 0 THEN <<>> ELSE <<n % 2>> \o BitsOf(n \div 2)

Zeros(k) == [i \in 1..k |-> 0]

BitAt(b, i) == IF i <= Len(b) THEN b[i] ELSE 0

\* without the zeros above the highest 1
TrimHigh(b) ==
    IF \A i \in DOMAIN b : b[i] = 0 THEN <<>>
    ELSE SubSeq(b, 1, CHOOSE i \in DOMAIN b : b[i] = 1 /\ \A j \in (i + 1)..Len(b) : b[j] = 0)

\* the number of zeros below the lowest 1
LowZeros(b) ==
    IF \A i \in DOMAIN b : b[i] = 0 THEN 0
    ELSE (CHOOSE i \in DOMAIN b : b[i] = 1 /\ \A j \in 1..(i - 1) : b[j] = 0) - 1

\* the one representation of a value
Canon(a) ==
    LET m == TrimHigh(a.m)
        z == LowZeros(m)
    IN  IF m = <<>> THEN [neg |-> FALSE, m |-> <<>>, e |-> 0]
        ELSE [neg |-> a.neg, m |-> SubSeq(m, z + 1, Len(m)), e |-> a.e + z]

\* a < b for bit sequences with no zeros above the highest 1
BLess(a, b) ==
    \/ Len(a) < Len(b)
    \/ /\ Len(a) = Len(b)
       /\ \E i \in 1..Len(a) : a[i] < b[i] /\ \A j \in (i + 1)..Len(a) : a[j] = b[j]

\* the arithmetic is done on digits of 13 bits, least significant first
RECURSIVE DigitFrom(_, _, _)
DigitFrom(b, low, t) ==
    IF t = 13 THEN 0 ELSE BitAt(b, low + t) * 2^t + DigitFrom(b, low, t + 1)

Digits(b) == [j \in 1..((Len(b) + 12) \div 13) |-> DigitFrom(b, 13 * (j - 1) + 1, 0)]

Bits(d) == [i \in 1..(13 * Len(d)) |-> (d[(i - 1) \div 13 + 1] \div 2^((i - 1) % 13)) % 2]

DigitAt(d, i) == IF i <= Len(d) THEN d[i] ELSE 0

RECURSIVE AddFrom(_, _, _, _)
AddFrom(a, b, i, carry) ==
    IF i > Len(a) /\ i > Len(b) THEN <<carry>>
    ELSE LET t == DigitAt(a, i) + DigitAt(b, i) + carry
         IN  <<t % 8192>> \o AddFrom(a, b, i + 1, t \div 8192)

BAdd(a, b) == TrimHigh(Bits(AddFrom(Digits(a), Digits(b), 1, 0)))

\* a - b where a >= b
RECURSIVE SubFrom(_, _, _, _)
SubFrom(a, b, i, borrow) ==
    IF i > Len(a) THEN <<>>
    ELSE LET t == a[i] - DigitAt(b, i) - borrow
         IN  IF t < 0 THEN <<t + 8192>> \o SubFrom(a, b, i + 1, 1)
             ELSE <<t>> \o SubFrom(a, b, i + 1, 0)

BSub(a, b) == TrimHigh(Bits(SubFrom(Digits(a), Digits(b), 1, 0)))

\* a * n for a whole number n below 2^17
RECURSIVE MulFrom(_, _, _, _)
MulFrom(a, n, i, carry) ==
    IF i > Len(a) THEN <<carry % 8192, carry \div 8192>>
    ELSE LET t == a[i] * n + carry
         IN  <<t % 8192>> \o MulFrom(a, n, i + 1, t \div 8192)

BMul(a, n) == TrimHigh(Bits(MulFrom(Digits(a), n, 1, 0)))

\* long division by a whole number n below 2^17, from digit i down: q the
\* quotient of the digits above i, rem what they left
RECURSIVE DivFrom(_, _, _, _, _)
DivFrom(a, n, i, rem, q) ==
    IF i = 0 THEN [q |-> q, r |-> rem]
    ELSE DivFrom(a, n, i - 1, (rem * 8192 + a[i]) % n, <<(rem * 8192 + a[i]) \div n>> \o q)

BDiv(a, n) ==
    LET qr == DivFrom(Digits(a), n, Len(Digits(a)), 0, <<>>)
    IN  [q |-> TrimHigh(Bits(qr.q)), r |-> qr.r]

FromInt(n) == Canon([neg |-> FALSE, m |-> BitsOf(n), e |-> 0])

BinNeg(a) == IF a.m = <<>> THEN a ELSE [a EXCEPT !.neg = ~a.neg]

\* a + b, not rounded
BinAdd(a, b) ==
    LET e0 == IF a.e < b.e THEN a.e ELSE b.e
        ma == IF a.m = <<>> THEN <<>> ELSE Zeros(a.e - e0) \o a.m
        mb == IF b.m = <<>> THEN <<>> ELSE Zeros(b.e - e0) \o b.m
    IN  IF a.neg = b.neg THEN Canon([neg |-> a.neg, m |-> BAdd(ma, mb), e |-> e0])
        ELSE IF BLess(ma, mb) THEN Canon([neg |-> b.neg, m |-> BSub(mb, ma), e |-> e0])
        ELSE Canon([neg |-> a.neg, m |-> BSub(ma, mb), e |-> e0])

BinSub(a, b) == BinAdd(a, BinNeg(b))

BinLess(a, b) == BinSub(a, b).neg

BinLeq(a, b) == ~BinLess(b, a)

\* significant bits of a JavaScript number
Precision == 53

\* the JavaScript number nearest to a, ties to even; sticky: the exact value
\* is above a by less than the lowest bit of a
Round(a, sticky) ==
    LET d    == Len(a.m) - Precision
        kept == SubSeq(a.m, d + 1, Len(a.m))
        up   == a.m[d] = 1 /\ (sticky \/ kept[1] = 1 \/ \E i \in 1..(d - 1) : a.m[i] = 1)
    IN  IF d <= 0 THEN a
        ELSE Canon([neg |-> a.neg,
                    m   |-> IF up THEN BAdd(kept, <<1>>) ELSE kept,
                    e   |-> a.e + d])

\* a - b of two numbers
FSub(a, b) == Round(BinSub(a, b), FALSE)

\* a * n for a whole number n > 0
FMulInt(a, n) == Round(Canon([neg |-> a.neg, m |-> BMul(a.m, n), e |-> a.e]), FALSE)

\* a / n for a whole number n > 0: the quotient to two bits more than the
\* precision, and whether a remainder is left
FDivInt(a, n) ==
    LET need  == Precision + 2 + Len(BitsOf(n)) - Len(a.m)
        shift == IF need > 0 THEN need ELSE 0
        qr    == BDiv(Zeros(shift) \o a.m, n)
    IN  IF a.m = <<>> THEN a
        ELSE Round(Canon([neg |-> a.neg, m |-> qr.q, e |-> a.e - shift]), qr.r # 0)

FMin(a, b) == IF BinLess(b, a) THEN b ELSE a

\* the number a decimal literal num/den denotes
Literal(num, den) == FDivInt(FromInt(num), den)

\* const pageWidth = 595.28
pageWidth == Literal(59528, 100)

\* const pageHeight = 841.89
pageHeight == Literal(84189, 100)

\* const { width, height } = coverImage.scale(1) ... x, y: the scale and the
\* placement of the cover image
CoverPlacement(image) ==
    LET width  == image.width
        height == image.height
        scaleX == FDivInt(pageWidth, width)
        scaleY == FDivInt(pageHeight, height)
        scale  == FMin(scaleX, scaleY)
        scaledWidth  == FMulInt(scale, width)
        scaledHeight == FMulInt(scale, height)
    IN  [scale |-> scale,
         scaledWidth  |-> scaledWidth,
         scaledHeight |-> scaledHeight,
         x |-> FDivInt(FSub(pageWidth, scaledWidth), 2),
         y |-> FDivInt(FSub(pageHeight, scaledHeight), 2)]

\* coverPage.drawImage(coverImage, {x, y, width, height}): the sides of the
\* image on the page are the sums of the numbers written to the document
CoverImage(x, y, width, height) ==
    [kind |-> "image", block |-> "coverImage", x |-> x, y |-> y,
     x2 |-> BinAdd(x, width), y2 |-> BinAdd(y, height), size |-> 0]

\* the cover page: the image scaled to fit and centered, else the title block
CoverPage(image) ==
    IF image.loaded
    THEN LET placed == CoverPlacement(image)
         IN  <<CoverImage(placed.x, placed.y, placed.scaledWidth, placed.scaledHeight)>>
    ELSE <<Text("coverTitle", RouteLeftMargin, 800, 24),
           Text("coverTitle", RouteLeftMargin, 770, 18),
           Text("coverTitle", RouteLeftMargin, 745, 10),
           Text("coverTitle", RouteLeftMargin, 730, 10),
           Text("coverTitle", RouteLeftMargin, 715, 10),
           Text("coverTitle", RouteLeftMargin, 700, 10)>>

\* addFooterToPage(page): footerY = 40
addFooterToPage(leftMargin) ==
    <<Text("footer", leftMargin, 70, 8), Text("footer", leftMargin, 60, 8),
      Text("footer", leftMargin, 50, 8), Text("footer", leftMargin, 40, 8)>>

\* the footer drawn on page1, page2 and page3 when the pages are complete: footerY = 20
FinalFooter ==
    <<Text("footer", 165, 50, 7), Text("footer", 165, 40, 7),
      Text("footer", 165, 30, 7), Text("footer", 165, 20, 7)>>

\* row dividers and cell texts of a table, rows index..rowCount-1;
\* a divider is drawn below every row except the last
RECURSIVE RouteTableRows(_, _, _, _, _, _, _, _)
RouteTableRows(block, index, rowCount, top, rowHeight, tableWidth, cellX, textSize) ==
    IF index >= rowCount THEN <<>>
    ELSE (IF index < rowCount - 1
          THEN <<Line(block, 56, top - (index + 1) * rowHeight,
                      56 + tableWidth, top - (index + 1) * rowHeight)>>
          ELSE <<>>)
         \o [c \in 1..Len(cellX) |-> Text(block, cellX[c], top - index * rowHeight - 12, textSize)]
         \o RouteTableRows(block, index + 1, rowCount, top, rowHeight, tableWidth, cellX, textSize)

\* the investment structure table drawn with its top at tableStartY
StructureTable(tableStartY) ==
    LET rowCount  == 7
        rowHeight == 18
        col1Width == 120
        col2Width == 300
    IN  <<Rectangle("structureTable", RouteLeftMargin, tableStartY - rowHeight * rowCount,
                    col1Width + col2Width, rowHeight * rowCount),
          Line("structureTable", 56 + col1Width, tableStartY,
               56 + col1Width, tableStartY - rowHeight * rowCount)>>
        \o RouteTableRows("structureTable", 0, rowCount, tableStartY, rowHeight,
                          col1Width + col2Width, <<61, 61 + col1Width>>, 9)

RECURSIVE Sum(_)
Sum(seq) == IF seq = <<>> THEN 0 ELSE Head(seq) + Sum(Tail(seq))

\* colPositions: 56 and the cumulative column widths
ColPositions(colWidths) == [i \in 1..Len(colWidths) |-> 56 + Sum(SubSeq(colWidths, 1, i - 1))]

\* the cash flow table drawn with its top at tableTop
CashFlowTable(tableTop) ==
    LET colWidths    == <<40, 75, 75, 75, 60, 95>>
        colPositions == ColPositions(colWidths)
        rowCount     == 5
        tableHeight  == rowCount * 18
    IN  <<Rectangle("cashFlowTable", RouteLeftMargin, tableTop - tableHeight,
                    Sum(colWidths), tableHeight)>>
        \o [i \in 1..(Len(colPositions) - 1) |->
               Line("cashFlowTable", colPositions[i + 1], tableTop,
                    colPositions[i + 1], tableTop - tableHeight)]
        \o RouteTableRows("cashFlowTable", 0, rowCount, tableTop, 18, Sum(colWidths),
                          [c \in 1..Len(colPositions) |-> colPositions[c] + 3], 8)

(***************************************************************************)
(* Page-flow variant of the route: logo, tables.                           *)
(***************************************************************************)
\* addLogoToPage(page): the logo at the top right when it was loaded
addLogoToPage(image) ==
    IF image.loaded
    THEN <<Image("logo", RSub(RSub(PageWidth, Num(160)), Num(40)), Num(740),
                 Num(160), Num(53))>>
    ELSE <<>>

\* rows i..rowCount-1 of a table: a line above every row but the first, then
\* the cells, each cell colW[j] right of the one before
RECURSIVE FlowTableRows(_, _, _, _, _)
FlowTableRows(block, i, rowCount, top, colW) ==
    IF i >= rowCount THEN <<>>
    ELSE (IF i > 0
          THEN <<Line(block, FlowLeftMargin, top - i * 20,
                      FlowLeftMargin + Sum(colW), top - i * 20)>>
          ELSE <<>>)
         \o [j \in 1..Len(colW) |->
                Text(block, FlowLeftMargin + 5 + Sum(SubSeq(colW, 1, j - 1)),
                     top - i * 20 - 14, 9)]
         \o FlowTableRows(block, i + 1, rowCount, top, colW)

\* the investment structure table: 5 rows, border and rows
FlowStructureTable(tableY) ==
    LET colWidths == <<150, 300>>
        rowCount  == 5
    IN  <<Rectangle("flowStructureTable", FlowLeftMargin, tableY - rowCount * 20,
                    colWidths[1] + colWidths[2], rowCount * 20)>>
        \o FlowTableRows("flowStructureTable", 0, rowCount, tableY, colWidths)

\* the cash flow table: 4 rows, border and rows
FlowCashFlowTable(tableTop) ==
    LET colW     == <<50, 100, 120, 120>>
        rowCount == 4
    IN  <<Rectangle("flowCashFlowTable", FlowLeftMargin, tableTop - rowCount * 20,
                    Sum(colW), rowCount * 20)>>
        \o FlowTableRows("flowCashFlowTable", 0, rowCount, tableTop, colW)

(***************************************************************************)
(* The straight-line drawing code of a page is a script of its statements, *)
(* run from the top with the cursor yPos:                                  *)
(*   <<"to", y>>                        yPos = y                           *)
(*   <<"down", d>>                      yPos -= d                          *)
(*   <<"text", block, x, size>>         page.drawText(.., {x, y: yPos})    *)
(*   <<"lines", block, x, size, n, step>>                                  *)
(*                      n times: drawText at yPos; yPos -= step            *)
(*   <<"clamp", min>>                   if (yPos < min) yPos = min         *)
(*   <<"textIf", block, x, size, above>>                                   *)
(*                      if (yPos > above) drawText at yPos                 *)
(*   <<"textIfDown", block, x, size, above, step>>                         *)
(*                      if (yPos > above) { drawText at yPos; yPos -= step}*)
(*   <<"linesIf", block, x, size, n, step, above>>                         *)
(*                      n times: if (yPos > above) { drawText; yPos -= step}*)
(*   <<"signature", image>>             the signature image branch         *)
(*   <<"structureTable">>, <<"cashFlowTable">>   a table and the cursor    *)
(*                      set below it                                       *)
(*   <<"textBelow", block, x, size, d>> drawText at yPos - d               *)
(*   <<"flowStructureTable">>           the table; yPos is not assigned    *)
(*   <<"flowCashFlowTable">>            the table and the cursor below it  *)
(***************************************************************************)
RECURSIVE GuardedLines(_, _, _, _, _, _, _)
GuardedLines(block, x, y, size, count, step, above) ==
    IF count = 0 THEN [ops |-> <<>>, y |-> y]
    ELSE IF y > above
         THEN LET rest == GuardedLines(block, x, y - step, size, count - 1, step, above)
              IN  [ops |-> <<Text(block, x, y, size)>> \o rest.ops, y |-> rest.y]
         ELSE GuardedLines(block, x, y, size, count - 1, step, above)

\* one statement run at cursor y: the operations drawn and the cursor after it
RunStatement(st, y) ==
    CASE st[1] = "to"   -> [ops |-> <<>>, y |-> st[2]]
      [] st[1] = "down" -> [ops |-> <<>>, y |-> y - st[2]]
      [] st[1] = "text" -> [ops |-> <<Text(st[2], st[3], y, st[4])>>, y |-> y]
      [] st[1] = "lines" ->
            [ops |-> TextLines(st[2], st[3], y, st[4], st[5], st[6]), y |-> y - st[5] * st[6]]
      [] st[1] = "clamp" -> [ops |-> <<>>, y |-> IF y < st[2] THEN st[2] ELSE y]
      [] st[1] = "textIf" ->
            [ops |-> IF y > st[5] THEN <<Text(st[2], st[3], y, st[4])>> ELSE <<>>, y |-> y]
      [] st[1] = "textIfDown" ->
            IF y > st[5] THEN [ops |-> <<Text(st[2], st[3], y, st[4])>>, y |-> y - st[6]]
            ELSE [ops |-> <<>>, y |-> y]
      [] st[1] = "linesIf" -> GuardedLines(st[2], st[3], y, st[4], st[5], st[6], st[7])
      [] st[1] = "signature" ->
            IF st[2].loaded /\ y > 130
            THEN [ops |-> <<Image("signature", Num(RouteLeftMargin), Num(y - 60),
                                  Num(120), Num(60))>>,
                  y |-> y - (60 + 10)]
            ELSE IF y > 90 THEN [ops |-> <<>>, y |-> y - 40]
            ELSE [ops |-> <<>>, y |-> y]
      [] st[1] = "structureTable" -> [ops |-> StructureTable(y), y |-> y - 18 * 7 - 30]
      [] st[1] = "cashFlowTable" -> [ops |-> CashFlowTable(y), y |-> y - 5 * 18 - 20]
      [] st[1] = "textBelow" -> [ops |-> <<Text(st[2], st[3], y - st[5], st[4])>>, y |-> y]
      [] st[1] = "flowStructureTable" -> [ops |-> FlowStructureTable(y), y |-> y]
      [] st[1] = "flowCashFlowTable" -> [ops |-> FlowCashFlowTable(y), y |-> y - 4 * 20 - 40]

RECURSIVE Run(_, _)
Run(script, y) ==
    IF script = <<>> THEN [ops |-> <<>>, y |-> y]
    ELSE LET first == RunStatement(Head(script), y)
             rest  == Run(Tail(script), first.y)
         IN  [ops |-> first.ops \o rest.ops, y |-> rest.y]

\* lines wrapText returns for the four highlights, the market text, the invest
\* text, the conclusion, the thank-you text and the disclaimer of the route
HighlightLines == <<2, 1, 1, 1>>

MarketLines == 3

InvestLines == 2

ConclusionLines == 4

ThankYouLines == 2

DisclaimerLines == 4

\* page 1 up to the title (drawn before the first client text)
Page1Title == << <<"to", 780>>, <<"text", "title", RouteLeftMargin, 14>>, <<"down", 25>> >>

\* page 1 from "Prepared for" on
Page1Body(addressLines, summaryLines) ==
    << <<"text", "client", RouteLeftMargin, 11>>, <<"down", 20>>,
       <<"text", "date", RouteLeftMargin, 11>>, <<"down", 25>>,
       <<"text", "address", RouteLeftMargin, 11>>, <<"down", 15>>,
       <<"lines", "address", RouteLeftMargin, 10, addressLines, 15>>, <<"down", 50>>,
       <<"text", "dear", RouteLeftMargin, 16>>, <<"down", 30>>,
       <<"text", "thanks", RouteLeftMargin, 10>>, <<"down", 30>>,
       <<"text", "summary", RouteLeftMargin, 11>>, <<"down", 20>>,
       <<"lines", "summary", RouteLeftMargin, 10, summaryLines, 14>>, <<"down", 15>>,
       <<"text", "highlights", RouteLeftMargin, 12>>, <<"down", 20>>,
       <<"lines", "highlights", RouteLeftMargin + 20, 10, HighlightLines[1], 14>>, <<"down", 5>>,
       <<"lines", "highlights", RouteLeftMargin + 20, 10, HighlightLines[2], 14>>, <<"down", 5>>,
       <<"lines", "highlights", RouteLeftMargin + 20, 10, HighlightLines[3], 14>>, <<"down", 5>>,
       <<"lines", "highlights", RouteLeftMargin + 20, 10, HighlightLines[4], 14>>, <<"down", 5>>,
       <<"down", 25>>,
       <<"text", "market", RouteLeftMargin, 12>>, <<"down", 20>>,
       <<"lines", "market", RouteLeftMargin, 10, MarketLines, 14>>, <<"down", 8>>,
       <<"lines", "market", RouteLeftMargin, 10, 3, 14>>, <<"down", 10>>,
       <<"text", "market", RouteLeftMargin, 10>>, <<"down", 18>>,
       <<"lines", "market", RouteLeftMargin, 10, InvestLines, 14>> >>

Page2Script ==
    << <<"to", 780>>,
       <<"text", "structure", RouteLeftMargin, 12>>, <<"down", 25>>,
       <<"structureTable">>,
       <<"text", "whyPrivateEquity", RouteLeftMargin, 10>>, <<"down", 15>>,
       <<"lines", "whyPrivateEquity", 66, 9, 3, 15>>, <<"down", 20>>,
       <<"text", "cashFlow", RouteLeftMargin, 11>>, <<"down", 25>>,
       <<"cashFlowTable">>,
       <<"lines", "notes", 66, 9, 3, 12>> >>

\* variant of page 3: the signature block asks for room above 140
Page3ScriptHighGuards(signature) ==
    << <<"to", 720>>,
       <<"text", "risk", RouteLeftMargin, 12>>, <<"down", 15>>,
       <<"text", "risk", RouteLeftMargin, 9>>, <<"down", 20>>,
       <<"lines", "risk", 66, 9, 4, 15>>, <<"down", 15>>,
       <<"text", "whyInvest", RouteLeftMargin, 11>>, <<"down", 15>>,
       <<"lines", "whyInvest", 66, 9, 4, 15>>, <<"down", 20>>,
       <<"text", "nextSteps", RouteLeftMargin, 11>>, <<"down", 15>>,
       <<"lines", "nextSteps", 66, 9, 4, 15>>, <<"down", 20>>,
       <<"text", "conclusion", RouteLeftMargin, 11>>, <<"down", 15>>,
       <<"clamp", 80>>,
       <<"linesIf", "conclusion", RouteLeftMargin, 9, ConclusionLines, 12, 70>>, <<"down", 15>>,
       <<"clamp", 80>>,
       <<"linesIf", "thankYou", RouteLeftMargin, 9, ThankYouLines, 12, 70>>, <<"down", 20>>,
       <<"textIf", "signatureBlock", RouteLeftMargin, 10, 140>>, <<"down", 20>>,
       <<"signature", signature>>,
       <<"textIf", "signatureBlock", RouteLeftMargin, 10, 140>>, <<"down", 15>>,
       <<"textIf", "signatureBlock", RouteLeftMargin, 10, 140>>, <<"down", 30>>,
       <<"textIfDown", "signatureBlock", RouteLeftMargin, 9, 140, 15>>,
       <<"textIfDown", "signatureBlock", RouteLeftMargin, 9, 140, 15>>,
       <<"textIf", "signatureBlock", RouteLeftMargin, 9, 140>>, <<"down", 30>>,
       <<"lines", "disclaimer", RouteLeftMargin, 8, DisclaimerLines, 10>> >>

\* page 3 with a conclusion of conclusionLines lines
Page3ScriptWith(signature, conclusionLines) ==
    << <<"to", 720>>,
       <<"text", "risk", RouteLeftMargin, 12>>, <<"down", 15>>,
       <<"text", "risk", RouteLeftMargin, 9>>, <<"down", 20>>,
       <<"lines", "risk", 66, 9, 4, 15>>, <<"down", 15>>,
       <<"text", "whyInvest", RouteLeftMargin, 11>>, <<"down", 15>>,
       <<"lines", "whyInvest", 66, 9, 4, 15>>, <<"down", 20>>,
       <<"text", "nextSteps", RouteLeftMargin, 11>>, <<"down", 15>>,
       <<"lines", "nextSteps", 66, 9, 4, 15>>, <<"down", 20>>,
       <<"text", "conclusion", RouteLeftMargin, 11>>, <<"down", 15>>,
       <<"clamp", 80>>,
       <<"linesIf", "conclusion", RouteLeftMargin, 9, conclusionLines, 12, 70>>, <<"down", 15>>,
       <<"clamp", 80>>,
       <<"linesIf", "thankYou", RouteLeftMargin, 9, ThankYouLines, 12, 70>>, <<"down", 20>>,
       <<"textIf", "signatureBlock", RouteLeftMargin, 10, 70>>, <<"down", 20>>,
       <<"signature", signature>>,
       <<"textIf", "signatureBlock", RouteLeftMargin, 10, 70>>, <<"down", 15>>,
       <<"textIf", "signatureBlock", RouteLeftMargin, 10, 70>>, <<"down", 30>>,
       <<"textIfDown", "signatureBlock", RouteLeftMargin, 9, 70, 15>>,
       <<"textIfDown", "signatureBlock", RouteLeftMargin, 9, 70, 15>>,
       <<"textIf", "signatureBlock", RouteLeftMargin, 9, 70>>, <<"down", 30>>,
       <<"lines", "disclaimer", RouteLeftMargin, 8, DisclaimerLines, 10>> >>

Page3Script(signature) == Page3ScriptWith(signature, ConclusionLines)

(***************************************************************************)
(* Specification of the three-page route: POST /api/proposals/:id/pdf.     *)
(***************************************************************************)
\* most lines of a client address
MaxAddressLines == 9

SummaryLineCounts == {5, 6}

\* pixel sizes of the cover image file
CoverSizes == {<<1240, 1754>>, <<1600, 900>>, <<1080, 1600>>}

Requests ==
    [found          : BOOLEAN,          \* storage.getProposal(id) returns a record
     textEncodable  : BOOLEAN,          \* name, date and address are WinAnsi text
     headerEncodable : BOOLEAN,         \* the name has only characters a header value may have
     addressLines   : 1..MaxAddressLines,
     summaryLines   : SummaryLineCounts,
     coverFile      : BOOLEAN,          \* the image file can be read and embedded
     coverSize      : CoverSizes,
     logoFile       : BOOLEAN,
     signatureFile  : BOOLEAN]

RouteInit ==
    /\ request \in Requests
    /\ pc = "idle"
    /\ coverImage = Missing /\ logoImage = Missing /\ signatureImage = Missing
    /\ pages = <<>> /\ currentPage = 0 /\ yPos = 0
    /\ response = NoResponse
    /\ sent = 0

\* try { image = await pdfDoc.embedPng(await fs.readFile(path)) } catch { warn }:
\* the image stays unset when the file cannot be read or embedded
ImageLoad(fileOk, embedded) == IF fileOk THEN embedded ELSE Missing

\* catch (error) { res.status(500).json({ error, details }) }: the handler
\* answers with the failure response; variant: it sends what was built so far
FailSendsDocument ==
    /\ response' = [status |-> 200, document |-> pages]
    /\ sent' = sent + 1
    /\ pc' = "done"

Fail ==
    /\ response' = [status |-> 500, error |-> "Failed to generate PDF",
                    details |-> "error.message"]
    /\ sent' = sent + 1
    /\ pc' = "done"

\* the handler looks the proposal up and creates the document
RouteRequest ==
    /\ pc = "idle"
    /\ IF request.found
       THEN pc' = "loadCover" /\ UNCHANGED <<response, sent>>
       ELSE pc' = "done" /\ response' = [status |-> 404] /\ sent' = sent + 1
    /\ UNCHANGED <<request, coverImage, logoImage, signatureImage, pages, currentPage, yPos>>
    /\ UNCHANGED calcVars
    /\ UNCHANGED wrapVars
    /\ UNCHANGED serverVars
    /\ UNCHANGED formVars

LoadCoverImage ==
    /\ pc = "loadCover"
    /\ coverImage' = ImageLoad(request.coverFile,
                               Embedded(request.coverSize[1], request.coverSize[2]))
    /\ pc' = "loadLogo"
    /\ UNCHANGED <<request, logoImage, signatureImage, pages, currentPage, yPos, response, sent>>
    /\ UNCHANGED calcVars
    /\ UNCHANGED wrapVars
    /\ UNCHANGED serverVars
    /\ UNCHANGED formVars

LoadLogoImage ==
    /\ pc = "loadLogo"
    /\ logoImage' = ImageLoad(request.logoFile, Loaded)
    /\ pc' = "loadSignature"
    /\ UNCHANGED <<request, coverImage, signatureImage, pages, currentPage, yPos, response, sent>>
    /\ UNCHANGED calcVars
    /\ UNCHANGED wrapVars
    /\ UNCHANGED serverVars
    /\ UNCHANGED formVars

LoadSignatureImage ==
    /\ pc = "loadSignature"
    /\ signatureImage' = ImageLoad(request.signatureFile, Loaded)
    /\ pc' = "cover"
    /\ UNCHANGED <<request, coverImage, logoImage, pages, currentPage, yPos, response, sent>>
    /\ UNCHANGED calcVars
    /\ UNCHANGED wrapVars
    /\ UNCHANGED serverVars
    /\ UNCHANGED formVars

\* fonts embedded, cover page added and drawn
DrawCoverPage ==
    /\ pc = "cover"
    /\ pages' = <<CoverPage(coverImage)>>
    /\ currentPage' = 1
    /\ pc' = "page1"
    /\ UNCHANGED <<request, coverImage, logoImage, signatureImage, yPos, response, sent>>
    /\ UNCHANGED calcVars
    /\ UNCHANGED wrapVars
    /\ UNCHANGED serverVars
    /\ UNCHANGED formVars

\* page 1; drawText of a client text the font cannot encode throws
DrawPage1 ==
    /\ pc = "page1"
    /\ LET title == Run(Page1Title, 0)
           body  == Run(Page1Body(request.addressLines, request.summaryLines), title.y)
       IN  IF request.textEncodable
           THEN /\ pages' = Append(pages, addFooterToPage(RouteLeftMargin) \o title.ops \o body.ops)
                /\ yPos' = body.y
                /\ pc' = "page2"
                /\ UNCHANGED <<response, sent>>
           ELSE /\ pages' = Append(pages, addFooterToPage(RouteLeftMargin) \o title.ops)
                /\ yPos' = title.y
                /\ Fail
    /\ currentPage' = Len(pages')
    /\ UNCHANGED <<request, coverImage, logoImage, signatureImage>>
    /\ UNCHANGED calcVars
    /\ UNCHANGED wrapVars
    /\ UNCHANGED serverVars
    /\ UNCHANGED formVars

DrawPage2 ==
    /\ pc = "page2"
    /\ LET r == Run(Page2Script, yPos)
       IN  /\ pages' = Append(pages, addFooterToPage(RouteLeftMargin) \o r.ops)
           /\ yPos' = r.y
    /\ currentPage' = Len(pages')
    /\ pc' = "page3"
    /\ UNCHANGED <<request, coverImage, logoImage, signatureImage, response, sent>>
    /\ UNCHANGED calcVars
    /\ UNCHANGED wrapVars
    /\ UNCHANGED serverVars
    /\ UNCHANGED formVars

DrawPage3 ==
    /\ pc = "page3"
    /\ LET r == Run(Page3Script(signatureImage), yPos)
       IN  /\ pages' = Append(pages, addFooterToPage(RouteLeftMargin) \o r.ops)
           /\ yPos' = r.y
    /\ currentPage' = Len(pages')
    /\ pc' = "footers"
    /\ UNCHANGED <<request, coverImage, logoImage, signatureImage, response, sent>>
    /\ UNCHANGED calcVars
    /\ UNCHANGED wrapVars
    /\ UNCHANGED serverVars
    /\ UNCHANGED formVars

\* [page1, page2, page3].forEach: the footer texts again, 20 from the bottom
DrawFooters ==
    /\ pc = "footers"
    /\ pages' = [i \in 1..Len(pages) |-> IF i >= 2 THEN pages[i] \o FinalFooter ELSE pages[i]]
    /\ pc' = "save"
    /\ UNCHANGED <<request, coverImage, logoImage, signatureImage, currentPage, yPos, response, sent>>
    /\ UNCHANGED calcVars
    /\ UNCHANGED wrapVars
    /\ UNCHANGED serverVars
    /\ UNCHANGED formVars

\* pdfDoc.save(), the headers and res.send; res.setHeader throws when the
\* file name made of the client name has a character not allowed in a header
SaveAndSend ==
    /\ pc = "save"
    /\ IF request.headerEncodable
       THEN /\ response' = [status |-> 200, document |-> pages]
            /\ sent' = sent + 1
            /\ pc' = "done"
       ELSE Fail
    /\ UNCHANGED <<request, coverImage, logoImage, signatureImage, pages, currentPage, yPos>>
    /\ UNCHANGED calcVars
    /\ UNCHANGED wrapVars
    /\ UNCHANGED serverVars
    /\ UNCHANGED formVars

(***************************************************************************)
(* Specification of the page-flow variant of the route: content flows down *)
(* the current page and checkPageOverflow starts a new page before a       *)
(* section that needs more room.                                           *)
(***************************************************************************)
\* the page started when the cursor is below the room needed, else the same
\* page and cursor
checkPageOverflowKeepsCursor(docPages, page, y, minSpaceNeeded, logo) ==
    IF y < minSpaceNeeded
    THEN [pages |-> Append(docPages, addFooterToPage(FlowLeftMargin) \o addLogoToPage(logo)),
          page  |-> Len(docPages) + 1,
          yPos  |-> y]
    ELSE [pages |-> docPages, page |-> page, yPos |-> y]

checkPageOverflow(docPages, page, y, minSpaceNeeded, logo) ==
    IF y < minSpaceNeeded
    THEN [pages |-> Append(docPages, addFooterToPage(FlowLeftMargin) \o addLogoToPage(logo)),
          page  |-> Len(docPages) + 1,
          yPos  |-> 750]
    ELSE [pages |-> docPages, page |-> page, yPos |-> y]

\* lines drawJustifiedText breaks the fixed paragraphs into at width 495
AdditionalSummaryLines == 3

MarketIntroLines == 2

MarketAnalysisLines == 3

RiskLines == 3

NextStepsLines == 3

FlowDisclaimerLines == 3

\* lines of the paragraphs that print the amounts of the proposal
TemplatedLineCounts == {3, 4}

FlowRequests ==
    [found           : BOOLEAN,
     textEncodable   : BOOLEAN,
     headerEncodable : BOOLEAN,
     logoFile        : BOOLEAN,
     summaryLines    : TemplatedLineCounts,
     conclusionLines : TemplatedLineCounts]

\* the calls of checkPageOverflow, in order, and the room each asks for
MinSpaceNeeded ==
    [check1 |-> 150, check2 |-> 200, check3 |-> 250,
     check4 |-> 200, check5 |-> 300, check6 |-> 200]

SectionAfterCheck ==
    [check1 |-> "section1", check2 |-> "section2", check3 |-> "section3",
     check4 |-> "section4", check5 |-> "section5", check6 |-> "section6"]

AfterSection ==
    [section1 |-> "check2", section2 |-> "check3", section3 |-> "check4",
     section4 |-> "check5", section5 |-> "check6", section6 |-> "save"]

\* the drawing code between two calls of checkPageOverflow
SectionScript(req) ==
    [section1 |->
        << <<"text", "summary", FlowLeftMargin, 12>>, <<"down", 20>>,
           <<"lines", "summary", FlowLeftMargin, 10, req.summaryLines, 14>>, <<"down", 20>>,
           <<"lines", "summary", FlowLeftMargin, 10, AdditionalSummaryLines, 14>> >>,
     section2 |->
        << <<"text", "market", FlowLeftMargin, 12>>, <<"down", 20>>,
           <<"lines", "market", FlowLeftMargin, 10, MarketIntroLines, 14>>, <<"down", 15>>,
           <<"lines", "market", FlowLeftMargin + 15, 10, 5, 14>>, <<"down", 20>>,
           <<"lines", "market", FlowLeftMargin, 10, MarketAnalysisLines, 14>> >>,
     section3 |->
        << <<"text", "structure", FlowLeftMargin, 12>>, <<"down", 25>>,
           <<"flowStructureTable">> >>,
     section4 |->
        << <<"text", "cashFlow", FlowLeftMargin, 12>>, <<"down", 25>>,
           <<"flowCashFlowTable">> >>,
     section5 |->
        << <<"text", "risk", FlowLeftMargin, 12>>, <<"down", 20>>,
           <<"lines", "risk", FlowLeftMargin, 10, RiskLines, 14>>, <<"down", 30>>,
           <<"text", "conclusion", FlowLeftMargin, 12>>, <<"down", 20>>,
           <<"lines", "conclusion", FlowLeftMargin, 10, req.conclusionLines, 14>>, <<"down", 30>>,
           <<"lines", "conclusion", FlowLeftMargin, 10, NextStepsLines, 14>> >>,
     section6 |->
        << <<"text", "confirmation", FlowLeftMargin, 12>>, <<"down", 25>>,
           <<"text", "confirmation", FlowLeftMargin, 10>>, <<"down", 60>>,
           <<"text", "confirmation", FlowLeftMargin, 10>>,
           <<"textBelow", "confirmation", FlowLeftMargin, 9, 15>>,
           <<"text", "confirmation", FlowLeftMargin + 250, 10>>, <<"down", 80>>,
           <<"lines", "disclaimer", FlowLeftMargin, 8, FlowDisclaimerLines, 12>> >>]

FlowInit ==
    /\ request \in FlowRequests
    /\ pc = "idle"
    /\ coverImage = Missing /\ logoImage = Missing /\ signatureImage = Missing
    /\ pages = <<>> /\ currentPage = 0 /\ yPos = 0
    /\ response = NoResponse
    /\ sent = 0

\* the handler looks the proposal up, creates the document and embeds the fonts
FlowRequest ==
    /\ pc = "idle"
    /\ IF request.found
       THEN pc' = "loadLogo" /\ UNCHANGED <<response, sent>>
       ELSE pc' = "done" /\ response' = [status |-> 404] /\ sent' = sent + 1
    /\ UNCHANGED <<request, coverImage, logoImage, signatureImage, pages, currentPage, yPos>>
    /\ UNCHANGED calcVars
    /\ UNCHANGED wrapVars
    /\ UNCHANGED serverVars
    /\ UNCHANGED formVars

FlowLoadLogo ==
    /\ pc = "loadLogo"
    /\ logoImage' = ImageLoad(request.logoFile, Loaded)
    /\ pc' = "cover"
    /\ UNCHANGED <<request, coverImage, signatureImage, pages, currentPage, yPos, response, sent>>
    /\ UNCHANGED calcVars
    /\ UNCHANGED wrapVars
    /\ UNCHANGED serverVars
    /\ UNCHANGED formVars

\* the cover page, then the first content page with footer and logo
FlowStartPages ==
    /\ pc = "cover"
    /\ pages' = <<<<Text("coverTitle", 200, 700, 28), Text("coverTitle", 180, 660, 18)>>,
                  addFooterToPage(FlowLeftMargin) \o addLogoToPage(logoImage)>>
    /\ currentPage' = 2
    /\ yPos' = FlowTop
    /\ pc' = "preparedFor"
    /\ UNCHANGED <<request, coverImage, logoImage, signatureImage, response, sent>>
    /\ UNCHANGED calcVars
    /\ UNCHANGED wrapVars
    /\ UNCHANGED serverVars
    /\ UNCHANGED formVars

\* "Prepared for" and the date; drawText of a text the font cannot encode throws
FlowPreparedFor ==
    /\ pc = "preparedFor"
    /\ IF request.textEncodable
       THEN LET r == Run(<< <<"text", "client", FlowLeftMargin, 12>>, <<"down", 20>>,
                            <<"text", "date", FlowLeftMargin, 11>>, <<"down", 40>> >>, yPos)
            IN  /\ pages' = [pages EXCEPT ![currentPage] = @ \o r.ops]
                /\ yPos' = r.y
                /\ pc' = "check1"
                /\ UNCHANGED <<response, sent>>
       ELSE Fail /\ UNCHANGED <<pages, yPos>>
    /\ UNCHANGED <<request, coverImage, logoImage, signatureImage, currentPage>>
    /\ UNCHANGED calcVars
    /\ UNCHANGED wrapVars
    /\ UNCHANGED serverVars
    /\ UNCHANGED formVars

\* pageResult = checkPageOverflow(currentPage, yPos, min);
\* currentPage = pageResult.page; yPos = pageResult.yPos
CheckPageOverflow ==
    /\ pc \in DOMAIN MinSpaceNeeded
    /\ LET pageResult == checkPageOverflow(pages, currentPage, yPos, MinSpaceNeeded[pc], logoImage)
       IN  /\ pages' = pageResult.pages
           /\ currentPage' = pageResult.page
           /\ yPos' = pageResult.yPos
    /\ pc' = SectionAfterCheck[pc]
    /\ UNCHANGED <<request, coverImage, logoImage, signatureImage, response, sent>>
    /\ UNCHANGED calcVars
    /\ UNCHANGED wrapVars
    /\ UNCHANGED serverVars
    /\ UNCHANGED formVars

\* the section drawn on the current page from the cursor down
DrawSection ==
    /\ pc \in DOMAIN AfterSection
    /\ LET r == Run(SectionScript(request)[pc], yPos)
       IN  /\ pages' = [pages EXCEPT ![currentPage] = @ \o r.ops]
           /\ yPos' = r.y
    /\ pc' = AfterSection[pc]
    /\ UNCHANGED <<request, coverImage, logoImage, signatureImage, currentPage, response, sent>>
    /\ UNCHANGED calcVars
    /\ UNCHANGED wrapVars
    /\ UNCHANGED serverVars
    /\ UNCHANGED formVars

FlowSaveAndSend ==
    /\ pc = "save"
    /\ IF request.headerEncodable
       THEN /\ response' = [status |-> 200, document |-> pages]
            /\ sent' = sent + 1
            /\ pc' = "done"
       ELSE Fail
    /\ UNCHANGED <<request, coverImage, logoImage, signatureImage, pages, currentPage, yPos>>
    /\ UNCHANGED calcVars
    /\ UNCHANGED wrapVars
    /\ UNCHANGED serverVars
    /\ UNCHANGED formVars

(***************************************************************************)
(* Specification of the storage and of the create route:                   *)
(* POST /api/proposals validates the body and stores the proposal.         *)
(***************************************************************************)
\* no create request made yet
NoCreate == [status |-> 0]

\* no storage read made yet
NoLookup == [read |-> FALSE]

\* most proposals stored
MaxStored == 2

\* ids randomUUID() can return
Ids == {"id1", "id2", "id3"}

\* investmentAmount of a request body: not a number (absent, or a string),
\* negative, zero, positive
BodyAmounts == {Undefined, Num(-1000), Num(0), Num(1000)}

BodyHorizons == {-1, 0, 3}

\* request bodies of POST /api/proposals
Bodies ==
    {[ScenarioRecord EXCEPT !.investmentAmount = a, !.timeHorizon = t] :
        a \in BodyAmounts, t \in BodyHorizons}

\* insertProposalSchema.parse(body) succeeds: the schema generated from the
\* table asks of a real column only that it is a number (notNull)
SchemaAccepts(body) == body.investmentAmount # Undefined

\* variant: every proposal is stored under the same id
createProposalSameId(insertProposal, id) == [id |-> "id1"] @@ insertProposal

\* MemStorage.createProposal: the proposal stored under the new id
createProposal(insertProposal, id) == [id |-> id] @@ insertProposal

\* MemStorage.getProposal(id): this.proposals.get(id)
getProposal(proposals, id) ==
    IF \E i \in DOMAIN proposals : proposals[i].id = id
    THEN [read |-> TRUE, found |-> TRUE,
          proposal |-> proposals[CHOOSE i \in DOMAIN proposals : proposals[i].id = id]]
    ELSE [read |-> TRUE, found |-> FALSE]

StoreInit ==
    /\ store = <<>>
    /\ lastCreate = NoCreate
    /\ lookup = NoLookup
    /\ handlers = <<>>

\* POST /api/proposals: parse, createProposal, res.json(proposal);
\* a body the schema rejects gets status 400.  randomUUID() returns a new id.
CreateProposal ==
    /\ Len(store) < MaxStored
    /\ \E body \in Bodies, id \in Ids \ {store[i].id : i \in DOMAIN store} :
          IF SchemaAccepts(body)
          THEN /\ store' = Append(store, createProposal(body, id))
               /\ lastCreate' = [status |-> 200, body |-> body]
          ELSE /\ store' = store
               /\ lastCreate' = [status |-> 400, body |-> body]
    /\ UNCHANGED <<lookup, handlers>>
    /\ UNCHANGED calcVars
    /\ UNCHANGED wrapVars
    /\ UNCHANGED docVars
    /\ UNCHANGED formVars

\* the PDF route reads the proposal: storage.getProposal(id)
GetProposal ==
    /\ \E id \in Ids : lookup' = getProposal(store, id)
    /\ UNCHANGED <<store, lastCreate, handlers>>
    /\ UNCHANGED calcVars
    /\ UNCHANGED wrapVars
    /\ UNCHANGED docVars
    /\ UNCHANGED formVars

(***************************************************************************)
(* Specification of two PDF requests served by the one process: every      *)
(* invocation of the handler has its own locals (pdfDoc, currentPage,      *)
(* yPos, the images, the closures over them); the invocations interleave   *)
(* at the awaits; the storage singleton is all they share.                 *)
(***************************************************************************)
\* the invocations of the handler in progress
HandlerIds == {1, 2}

\* the locals of an invocation of the handler that has just been called
HandlerStart(variant, req) ==
    [variant |-> variant, request |-> req, pc |-> "idle",
     coverImage |-> Missing, logoImage |-> Missing, signatureImage |-> Missing,
     pages |-> <<>>, currentPage |-> 0, yPos |-> 0,
     response |-> NoResponse, sent |-> 0]

\* the catch block of the handler, on the locals of the invocation
Failed(h) ==
    [h EXCEPT !.response = [status |-> 500, error |-> "Failed to generate PDF",
                            details |-> "error.message"],
              !.sent = @ + 1,
              !.pc = "done"]

\* res.send(Buffer.from(pdfBytes)) of the document of the invocation
Sent(h) ==
    IF h.request.headerEncodable
    THEN [h EXCEPT !.response = [status |-> 200, document |-> h.pages],
                   !.sent = @ + 1,
                   !.pc = "done"]
    ELSE Failed(h)

\* the lookup of the proposal at the start of the handler
Looked(h, next) ==
    IF h.request.found
    THEN [h EXCEPT !.pc = next]
    ELSE [h EXCEPT !.pc = "done", !.response = [status |-> 404], !.sent = @ + 1]

\* the next step of an invocation of the three-page route on its locals
RouteStep(h) ==
    CASE h.pc = "idle" -> Looked(h, "loadCover")
      [] h.pc = "loadCover" ->
            [h EXCEPT !.coverImage = ImageLoad(h.request.coverFile,
                                       Embedded(h.request.coverSize[1], h.request.coverSize[2])),
                      !.pc = "loadLogo"]
      [] h.pc = "loadLogo" ->
            [h EXCEPT !.logoImage = ImageLoad(h.request.logoFile, Loaded),
                      !.pc = "loadSignature"]
      [] h.pc = "loadSignature" ->
            [h EXCEPT !.signatureImage = ImageLoad(h.request.signatureFile, Loaded),
                      !.pc = "cover"]
      [] h.pc = "cover" ->
            [h EXCEPT !.pages = <<CoverPage(h.coverImage)>>, !.currentPage = 1, !.pc = "page1"]
      [] h.pc = "page1" ->
            LET title == Run(Page1Title, 0)
                body  == Run(Page1Body(h.request.addressLines, h.request.summaryLines), title.y)
            IN  IF h.request.textEncodable
                THEN [h EXCEPT !.pages = Append(h.pages, addFooterToPage(RouteLeftMargin)
                                                          \o title.ops \o body.ops),
                               !.currentPage = Len(h.pages) + 1,
                               !.yPos = body.y,
                               !.pc = "page2"]
                ELSE Failed([h EXCEPT !.pages = Append(h.pages, addFooterToPage(RouteLeftMargin)
                                                                 \o title.ops),
                                      !.currentPage = Len(h.pages) + 1,
                                      !.yPos = title.y])
      [] h.pc = "page2" ->
            LET r == Run(Page2Script, h.yPos)
            IN  [h EXCEPT !.pages = Append(h.pages, addFooterToPage(RouteLeftMargin) \o r.ops),
                          !.currentPage = Len(h.pages) + 1,
                          !.yPos = r.y,
                          !.pc = "page3"]
      [] h.pc = "page3" ->
            LET r == Run(Page3Script(h.signatureImage), h.yPos)
            IN  [h EXCEPT !.pages = Append(h.pages, addFooterToPage(RouteLeftMargin) \o r.ops),
                          !.currentPage = Len(h.pages) + 1,
                          !.yPos = r.y,
                          !.pc = "footers"]
      [] h.pc = "footers" ->
            [h EXCEPT !.pages = [i \in 1..Len(h.pages) |->
                                    IF i >= 2 THEN h.pages[i] \o FinalFooter ELSE h.pages[i]],
                      !.pc = "save"]
      [] h.pc = "save" -> Sent(h)
      [] OTHER -> h

\* the next step of an invocation of the page-flow variant on its locals
FlowStep(h) ==
    CASE h.pc = "idle" -> Looked(h, "loadLogo")
      [] h.pc = "loadLogo" ->
            [h EXCEPT !.logoImage = ImageLoad(h.request.logoFile, Loaded), !.pc = "cover"]
      [] h.pc = "cover" ->
            [h EXCEPT !.pages = <<<<Text("coverTitle", 200, 700, 28),
                                    Text("coverTitle", 180, 660, 18)>>,
                                  addFooterToPage(FlowLeftMargin) \o addLogoToPage(h.logoImage)>>,
                      !.currentPage = 2,
                      !.yPos = FlowTop,
                      !.pc = "preparedFor"]
      [] h.pc = "preparedFor" ->
            IF h.request.textEncodable
            THEN LET r == Run(<< <<"text", "client", FlowLeftMargin, 12>>, <<"down", 20>>,
                                 <<"text", "date", FlowLeftMargin, 11>>, <<"down", 40>> >>, h.yPos)
                 IN  [h EXCEPT !.pages[h.currentPage] = @ \o r.ops,
                               !.yPos = r.y,
                               !.pc = "check1"]
            ELSE Failed(h)
      [] h.pc \in DOMAIN MinSpaceNeeded ->
            LET pageResult == checkPageOverflow(h.pages, h.currentPage, h.yPos,
                                                MinSpaceNeeded[h.pc], h.logoImage)
            IN  [h EXCEPT !.pages = pageResult.pages,
                          !.currentPage = pageResult.page,
                          !.yPos = pageResult.yPos,
                          !.pc = SectionAfterCheck[h.pc]]
      [] h.pc \in DOMAIN AfterSection ->
            LET r == Run(SectionScript(h.request)[h.pc], h.yPos)
            IN  [h EXCEPT !.pages[h.currentPage] = @ \o r.ops,
                          !.yPos = r.y,
                          !.pc = AfterSection[h.pc]]
      [] h.pc = "save" -> Sent(h)
      [] OTHER -> h

HandlerStep(h) == IF h.variant = "route" THEN RouteStep(h) ELSE FlowStep(h)

\* the document, page and cursor a step of invocation r works on; variant:
\* they are kept at module level, where the invocation that ran last left them
LayoutStateShared(hs, r) ==
    [hs.of[r] EXCEPT !.pages = hs.of[hs.recent].pages,
                     !.currentPage = hs.of[hs.recent].currentPage,
                     !.yPos = hs.of[hs.recent].yPos]

LayoutState(hs, r) == hs.of[r]

\* the requests the two invocations serve
ConcurrentRouteRequests ==
    {req \in Requests :
        /\ req.headerEncodable
        /\ req.summaryLines = 5
        /\ req.coverSize = <<1240, 1754>>
        /\ req.coverFile = req.logoFile /\ req.logoFile = req.signatureFile
        /\ req.addressLines \in {1, 2}
        /\ ~req.found => (req.textEncodable /\ req.coverFile /\ req.addressLines = 1)}

ConcurrentFlowRequests ==
    {req \in FlowRequests :
        /\ req.headerEncodable
        /\ req.conclusionLines = 3
        /\ ~req.found => (req.textEncodable /\ req.logoFile
                            /\ req.summaryLines = 3)}

HandlerStarts ==
    {HandlerStart("route", req) : req \in ConcurrentRouteRequests}
        \cup {HandlerStart("flow", req) : req \in ConcurrentFlowRequests}

\* the proposals in the storage when the two requests arrive
StoredProposals == <<createProposal(ScenarioRecord, "id1")>>

ConcurrentInit ==
    /\ store = StoredProposals
    /\ lastCreate = NoCreate
    /\ lookup = NoLookup
    /\ \E h1 \in HandlerStarts, h2 \in HandlerStarts :
          handlers = [of |-> <<h1, h2>>, recent |-> 1]

\* invocation r runs from one await to the next
HandlerAdvance ==
    /\ \E r \in HandlerIds :
          /\ handlers.of[r].pc # "done"
          /\ handlers' = [of     |-> [handlers.of EXCEPT ![r] = HandlerStep(LayoutState(handlers, r))],
                          recent |-> r]
    /\ UNCHANGED <<store, lastCreate, lookup>>
    /\ UNCHANGED calcVars
    /\ UNCHANGED wrapVars
    /\ UNCHANGED docVars
    /\ UNCHANGED formVars

(***************************************************************************)
(* sanitizeText (three-page route) and the drawing of a sanitized line.    *)
(* A character that is not ASCII is written by its name; a symbol of two   *)
(* code units is one character, as the patterns match the two together.    *)
(***************************************************************************)
\* the symbols replaced by a bullet
BulletSymbols == {"arrow", "radioButton", "checkBox", "checkMark"}

\* characters outside \x00-\x7F
NonAscii == BulletSymbols \cup {"telephone", "envelope", "globe", "bullet", "eAcute"}

\* str.replace(/c/g, replacement)
RECURSIVE ReplaceAll(_, _, _)
ReplaceAll(str, c, replacement) ==
    IF str = <<>> THEN <<>>
    ELSE (IF Head(str) = c THEN replacement ELSE <<Head(str)>>)
         \o ReplaceAll(Tail(str), c, replacement)

\* str.replace(/[^\x00-\x7F]/g, '')
RemoveNonAscii(str) == SelectSeq(str, LAMBDA c : c \notin NonAscii)

sanitizeText(str) ==
    LET bullets == ReplaceAll(ReplaceAll(ReplaceAll(ReplaceAll(str,
                       "arrow", <<"bullet">>), "radioButton", <<"bullet">>),
                       "checkBox", <<"bullet">>), "checkMark", <<"bullet">>)
        labels  == ReplaceAll(ReplaceAll(ReplaceAll(bullets,
                       "telephone", <<"T", "e", "l", ":">>),
                       "envelope", <<"E", "m", "a", "i", "l", ":">>),
                       "globe", <<"W", "e", "b", "s", "i", "t", "e", ":">>)
    IN  RemoveNonAscii(labels)

\* longest line sanitized
MaxSymbols == 3

SymbolChars == NonAscii \cup {"a", Space}

SymbolTexts == UNION {[1..n -> SymbolChars] : n \in 0..MaxSymbols}

SanitizeInit ==
    /\ text \in SymbolTexts
    /\ maxWidth = 0
    /\ kern = 0
    /\ op = "none"
    /\ lines = <<>>
    /\ drawn = <<>>
    /\ yOut = 780

\* page1.drawText(sanitizeText(line), {x: leftMargin + 20, y: yPos}); yPos -= 14
DrawSanitized ==
    /\ op = "none"
    /\ lines' = <<text>>
    /\ drawn' = <<DrawText(sanitizeText(text), Num(RouteLeftMargin + 20), yOut)>>
    /\ yOut' = yOut - 14
    /\ op' = "sanitizeText"
    /\ UNCHANGED <<text, maxWidth, kern>>
    /\ UNCHANGED calcVars
    /\ UNCHANGED docVars
    /\ UNCHANGED serverVars
    /\ UNCHANGED formVars

(***************************************************************************)
(* The proposal form (client/src/components/proposal-form.tsx).            *)
(* A click runs an async handler of the render it was made in: the handler *)
(* keeps the currentProposalId of that render over its awaits.             *)
(***************************************************************************)
\* currentProposalId when no proposal is remembered
Null == "null"

\* most clicks on Save, Preview and Generate
MaxClicks == 3

FormAmounts == {Num(500), Num(1000), Num(150000)}

\* values the form can hold
FormValues == {[ScenarioRecord EXCEPT !.investmentAmount = a] : a \in FormAmounts}

\* form.formState.isValid under proposalFormSchema: investmentAmount min 1000
FormValid(values) == ~RLess(values.investmentAmount, Num(1000))

\* the values handleReset puts in the form
ResetValues == ScenarioRecord

\* createProposalMutation.isPending, generatePDFMutation.isPending
SavePending == \E c \in DOMAIN clicks : clicks[c].pc \in {"saving", "saved"}

PdfPending == \E c \in DOMAIN clicks : clicks[c].pc = "requestingPdf"

\* a handler started by a click: the values and the currentProposalId it read
Click(handler, at) ==
    [handler |-> handler, values |-> formValues, currentProposalId |-> currentProposalId,
     pc |-> at, saved |-> Null]

\* generatePDFMutation.mutateAsync(proposalId) by click c
PdfRequest(c, proposalId, values) == [click |-> c, proposalId |-> proposalId, values |-> values]

FormInit ==
    /\ formValues = ScenarioRecord
    /\ currentProposalId = Null
    /\ clicks = <<>>
    /\ pdfRequests = <<>>
    /\ lastEvent = "none"
    /\ store = <<>>
    /\ lastCreate = NoCreate
    /\ lookup = NoLookup
    /\ handlers = <<>>

\* no form shown
FormIdle ==
    /\ formValues = ScenarioRecord
    /\ currentProposalId = Null
    /\ clicks = <<>>
    /\ pdfRequests = <<>>
    /\ lastEvent = "none"

\* a field's onChange: field.onChange(e); handleFormChange(form.getValues())
EditForm ==
    /\ \E values \in FormValues \ {formValues} : formValues' = values
    /\ lastEvent' = "edit"
    /\ UNCHANGED <<currentProposalId, clicks, pdfRequests>>
    /\ UNCHANGED calcVars
    /\ UNCHANGED wrapVars
    /\ UNCHANGED docVars
    /\ UNCHANGED serverVars

handleReset ==
    /\ formValues' = ResetValues
    /\ currentProposalId' = Null
    /\ lastEvent' = "reset"
    /\ UNCHANGED <<clicks, pdfRequests>>
    /\ UNCHANGED calcVars
    /\ UNCHANGED wrapVars
    /\ UNCHANGED docVars
    /\ UNCHANGED serverVars

\* the Save button: form.handleSubmit(onSubmit)
SubmitForm ==
    /\ Len(clicks) < MaxClicks
    /\ ~SavePending
    /\ IF FormValid(formValues)
       THEN /\ clicks' = Append(clicks, Click("onSubmit", "saving"))
            /\ lastEvent' = "click"
       ELSE /\ clicks' = clicks
            /\ lastEvent' = "invalid"
    /\ UNCHANGED <<formValues, currentProposalId, pdfRequests>>
    /\ UNCHANGED calcVars
    /\ UNCHANGED wrapVars
    /\ UNCHANGED docVars
    /\ UNCHANGED serverVars

\* handlePreview up to its first await
handlePreview ==
    /\ Len(clicks) < MaxClicks
    /\ ~PdfPending
    /\ IF ~FormValid(formValues)
       THEN /\ lastEvent' = "invalid"
            /\ UNCHANGED <<clicks, pdfRequests>>
       ELSE /\ lastEvent' = "click"
            /\ IF currentProposalId = Null
               THEN /\ clicks' = Append(clicks, Click("handlePreview", "saving"))
                    /\ pdfRequests' = pdfRequests
               ELSE /\ clicks' = Append(clicks, Click("handlePreview", "requestingPdf"))
                    /\ pdfRequests' = Append(pdfRequests,
                           PdfRequest(Len(clicks) + 1, currentProposalId, formValues))
    /\ UNCHANGED <<formValues, currentProposalId>>
    /\ UNCHANGED calcVars
    /\ UNCHANGED wrapVars
    /\ UNCHANGED docVars
    /\ UNCHANGED serverVars

\* handleGenerate up to its first await
handleGenerate ==
    /\ Len(clicks) < MaxClicks
    /\ ~SavePending /\ ~PdfPending
    /\ IF ~FormValid(formValues)
       THEN /\ lastEvent' = "invalid"
            /\ clicks' = clicks
       ELSE /\ lastEvent' = "click"
            /\ clicks' = Append(clicks, Click("handleGenerate", "saving"))
    /\ UNCHANGED <<formValues, currentProposalId, pdfRequests>>
    /\ UNCHANGED calcVars
    /\ UNCHANGED wrapVars
    /\ UNCHANGED docVars
    /\ UNCHANGED serverVars

\* the server handles POST /api/proposals of a click: storage.createProposal
ServerCreates ==
    /\ \E c \in DOMAIN clicks, id \in Ids \ {store[i].id : i \in DOMAIN store} :
          /\ clicks[c].pc = "saving"
          /\ store' = Append(store, createProposal(clicks[c].values, id))
          /\ clicks' = [clicks EXCEPT ![c].pc = "saved", ![c].saved = id]
    /\ lastEvent' = "stored"
    /\ UNCHANGED <<formValues, currentProposalId, pdfRequests>>
    /\ UNCHANGED <<lastCreate, lookup, handlers>>
    /\ UNCHANGED calcVars
    /\ UNCHANGED wrapVars
    /\ UNCHANGED docVars

\* the save of a click returns: onSuccess sets currentProposalId, then the
\* handler goes on after its await with the currentProposalId it read at the click
SaveReturns ==
    /\ \E c \in DOMAIN clicks :
          /\ clicks[c].pc = "saved"
          /\ currentProposalId' = clicks[c].saved
          /\ IF clicks[c].handler # "onSubmit" /\ clicks[c].currentProposalId # Null
             THEN /\ pdfRequests' = Append(pdfRequests,
                         PdfRequest(c, clicks[c].currentProposalId, clicks[c].values))
                  /\ clicks' = [clicks EXCEPT ![c].pc = "requestingPdf"]
             ELSE /\ pdfRequests' = pdfRequests
                  /\ clicks' = [clicks EXCEPT ![c].pc = "done"]
    /\ lastEvent' = "saved"
    /\ UNCHANGED formValues
    /\ UNCHANGED calcVars
    /\ UNCHANGED wrapVars
    /\ UNCHANGED docVars
    /\ UNCHANGED serverVars

\* the PDF request of a click returns
PdfReturns ==
    /\ \E c \in DOMAIN clicks :
          /\ clicks[c].pc = "requestingPdf"
          /\ clicks' = [clicks EXCEPT ![c].pc = "done"]
    /\ lastEvent' = "downloaded"
    /\ UNCHANGED <<formValues, currentProposalId, pdfRequests>>
    /\ UNCHANGED calcVars
    /\ UNCHANGED wrapVars
    /\ UNCHANGED docVars
    /\ UNCHANGED serverVars

\* MemStorage.getAllProposals: Array.from(this.proposals.values()), the
\* values of the Map in insertion order
getAllProposals(proposals) == [read |-> FALSE, all |-> proposals]

\* GET /api/proposals
GetAllProposals ==
    /\ lookup' = getAllProposals(store)
    /\ UNCHANGED <<store, lastCreate, handlers>>
    /\ UNCHANGED calcVars
    /\ UNCHANGED wrapVars
    /\ UNCHANGED docVars
    /\ UNCHANGED formVars

\* no text layout operation in progress
WrapIdle ==
    /\ text = <<>> /\ maxWidth = 0 /\ kern = 0 /\ op = "none"
    /\ lines = <<>> /\ drawn = <<>> /\ yOut = 0

\* nothing stored, no request to the server made
ServerIdle ==
    /\ store = <<>>
    /\ lastCreate = NoCreate
    /\ lookup = NoLookup
    /\ handlers = <<>>

\* no PDF request in progress
DocIdle ==
    /\ request = [found |-> FALSE]
    /\ pc = "idle"
    /\ coverImage = Missing /\ logoImage = Missing /\ signatureImage = Missing
    /\ pages = <<>> /\ currentPage = 0 /\ yPos = 0
    /\ response = NoResponse
    /\ sent = 0

(***************************************************************************)
(* Specification of the projection calculations.                           *)
(***************************************************************************)
CalcInit ==
    /\ proposal \in ProposalRecords
    /\ pdfFigures = NoFigures
    /\ panelFigures = NoFigures
    /\ flowFigures = NoFigures

\* the PDF route computes its figures from the stored record
ComputePdfFigures ==
    /\ pdfFigures = NoFigures
    /\ pdfFigures' = RouteFigures(proposal)
    /\ UNCHANGED <<proposal, panelFigures, flowFigures>>
    /\ UNCHANGED wrapVars
    /\ UNCHANGED docVars
    /\ UNCHANGED serverVars
    /\ UNCHANGED formVars

\* the live panel computes its figures from the form values
ComputePanelFigures ==
    /\ panelFigures = NoFigures
    /\ panelFigures' = calculateInvestmentProjections(proposal)
    /\ UNCHANGED <<proposal, pdfFigures, flowFigures>>
    /\ UNCHANGED wrapVars
    /\ UNCHANGED docVars
    /\ UNCHANGED serverVars
    /\ UNCHANGED formVars

\* the page-flow variant of the route computes its figures
ComputeFlowFigures ==
    /\ flowFigures = NoFigures
    /\ flowFigures' = FlowFigures(proposal)
    /\ UNCHANGED <<proposal, pdfFigures, panelFigures>>
    /\ UNCHANGED wrapVars
    /\ UNCHANGED docVars
    /\ UNCHANGED serverVars
    /\ UNCHANGED formVars

InitCalc == CalcInit /\ WrapIdle /\ DocIdle /\ ServerIdle /\ FormIdle

NextCalc == ComputePdfFigures \/ ComputePanelFigures \/ ComputeFlowFigures

SpecCalc == InitCalc /\ [][NextCalc]_vars

\* no projection being computed
CalcIdle ==
    /\ proposal = ScenarioRecord
    /\ pdfFigures = NoFigures /\ panelFigures = NoFigures /\ flowFigures = NoFigures

InitWrap == WrapInit /\ CalcIdle /\ DocIdle /\ ServerIdle /\ FormIdle

NextWrap == DrawJustified \/ DrawJustifiedEarlier \/ WrapAndDraw

SpecWrap == InitWrap /\ [][NextWrap]_vars

InitRoute == RouteInit /\ CalcIdle /\ WrapIdle /\ ServerIdle /\ FormIdle

NextRoute ==
    \/ RouteRequest
    \/ LoadCoverImage
    \/ LoadLogoImage
    \/ LoadSignatureImage
    \/ DrawCoverPage
    \/ DrawPage1
    \/ DrawPage2
    \/ DrawPage3
    \/ DrawFooters
    \/ SaveAndSend

SpecRoute == InitRoute /\ [][NextRoute]_vars

InitFlow == FlowInit /\ CalcIdle /\ WrapIdle /\ ServerIdle /\ FormIdle

NextFlow ==
    \/ FlowRequest
    \/ FlowLoadLogo
    \/ FlowStartPages
    \/ FlowPreparedFor
    \/ CheckPageOverflow
    \/ DrawSection
    \/ FlowSaveAndSend

SpecFlow == InitFlow /\ [][NextFlow]_vars

InitStore == StoreInit /\ CalcIdle /\ WrapIdle /\ DocIdle /\ FormIdle

NextStore == CreateProposal \/ GetProposal \/ GetAllProposals

SpecStore == InitStore /\ [][NextStore]_vars

InitConcurrent == ConcurrentInit /\ CalcIdle /\ WrapIdle /\ DocIdle /\ FormIdle

NextConcurrent == HandlerAdvance

SpecConcurrent == InitConcurrent /\ [][NextConcurrent]_vars

InitSanitize == SanitizeInit /\ CalcIdle /\ DocIdle /\ ServerIdle /\ FormIdle

NextSanitize == DrawSanitized

SpecSanitize == InitSanitize /\ [][NextSanitize]_vars

InitForm == FormInit /\ CalcIdle /\ WrapIdle /\ DocIdle

NextForm ==
    \/ EditForm
    \/ handleReset
    \/ SubmitForm
    \/ handlePreview
    \/ handleGenerate
    \/ ServerCreates
    \/ SaveReturns
    \/ PdfReturns

SpecForm == InitForm /\ [][NextForm]_vars

(***************************************************************************)
(* Claims about the projection calculations.                               *)
(***************************************************************************)
\* the projection identities on a computed set of figures f of record p
ValuesCompound(p, f) ==
    /\ RMul(f.sharesIssued, Num(8)) = p.investmentAmount
    /\ f.year1Return = RMul(f.sharesIssued, p.year1Dividend)
    /\ f.year2Return = RMul(f.sharesIssued, p.year2Dividend)
    /\ f.year3Return = RMul(f.sharesIssued, p.year3Dividend)
    /\ f.year1Value = RAdd(p.investmentAmount, f.year1Return)
    /\ f.year2Value = RAdd(f.year1Value, f.year2Return)
    /\ f.year3Value = RAdd(f.year2Value, f.year3Return)

GrowthOnPreviousValue(p, f) ==
    /\ RMul(f.year1Growth, p.investmentAmount) = RMul(f.year1Return, Num(100))
    /\ RMul(f.year2Growth, f.year1Value) = RMul(f.year2Return, Num(100))
    /\ RMul(f.year3Growth, f.year2Value) = RMul(f.year3Return, Num(100))

\* C1: for every record with investmentAmount > 0 and timeHorizon > 0 the
\* figures of the PDF route and of the live panel satisfy sharesIssued =
\* investmentAmount / 8, yearNReturn = sharesIssued x yearNDividend, each
\* year's value = previous cumulative value + that year's return, and each
\* year's growth = that year's return / previous cumulative value x 100.
C1_ProjectionFormulas ==
    (RPositive(proposal.investmentAmount) /\ proposal.timeHorizon > 0) =>
        /\ pdfFigures.computed =>
              ValuesCompound(proposal, pdfFigures) /\ GrowthOnPreviousValue(proposal, pdfFigures)
        /\ panelFigures.computed =>
              ValuesCompound(proposal, panelFigures) /\ GrowthOnPreviousValue(proposal, panelFigures)
        /\ flowFigures.computed => ValuesCompound(proposal, flowFigures)

\* both sides computed for a record whose growth on the previous value
\* differs from the growth on the principal
C1_Witness ==
    /\ pdfFigures.computed /\ panelFigures.computed /\ flowFigures.computed
    /\ RPositive(pdfFigures.year1Return) /\ RPositive(pdfFigures.year2Return)
    /\ RLess(pdfFigures.year2Growth,
             RMul(RDiv(pdfFigures.year2Return, proposal.investmentAmount), Num(100)))

ScenarioFigures(f) ==
    /\ f.sharesIssued = Num(18750)
    /\ f.year1Return = Num(27000) /\ f.year1Value = Num(177000)
    /\ toFixed(f.year1Growth, 2) = <<18, 0>>
    /\ f.year2Return = Num(35400) /\ f.year2Value = Num(212400)
    /\ toFixed(f.year2Growth, 2) = <<20, 0>>
    /\ f.year3Return = Rat(445875, 10) /\ f.year3Value = Rat(2569875, 10)
    /\ toFixed(f.year3Growth, 2) = <<20, 99>>

\* C2: for the record 150000 / 72 / 3 / 1.440 / 1.888 / 2.378 at share price 8
\* the figures are sharesIssued 18750, returns 27000 / 35400 / 44587.5, values
\* 177000 / 212400 / 256987.5 and growths 18.00 / 20.00 / 20.99 when rounded
\* to two decimals, in the PDF route and in the live panel.
C2_ScenarioFigures ==
    proposal = ScenarioRecord =>
        /\ pdfFigures.computed => ScenarioFigures(pdfFigures)
        /\ panelFigures.computed => ScenarioFigures(panelFigures)

C2_Witness ==
    /\ proposal = ScenarioRecord
    /\ pdfFigures.computed /\ panelFigures.computed

(***************************************************************************)
(* Claims about the text layout operations.                                *)
(***************************************************************************)
Range(f) == {f[i] : i \in DOMAIN f}

Justifying == op \in {"drawJustifiedText", "drawJustifiedTextEarlier"}

\* the words the wrap loop of the operation iterates over
InputWords == IF Justifying THEN Split(NormalizeSpacing(text)) ELSE Split(text)

\* line i as one string
LineText(i) == IF Justifying THEN Join(lines[i]) ELSE lines[i]

\* the width the wrap loop of the operation measures for a string
MeasuredWidth(str) ==
    IF Justifying THEN widthOfTextAtSize(str, DefaultFontSize, kern)
    ELSE RMul(Num(Len(str)), Rat(DefaultFontSize * 6, 10))

TooWide(str) == RLess(Num(maxWidth), MeasuredWidth(str))

\* line i holds exactly one word of the input and nothing else
IsOneInputWord(i) ==
    /\ LineText(i) \in Range(InputWords)
    /\ Justifying => Len(lines[i]) = 1

\* C3: the wrap loop never produces a line whose measured width exceeds
\* maxWidth, except a line that is exactly one word which alone is wider than
\* maxWidth; every such word stands alone and unaltered on a line of its own.
C3_LinesFit ==
    op # "none" =>
        /\ \A i \in 1..Len(lines) : TooWide(LineText(i)) => IsOneInputWord(i)
        /\ \A w \in Range(InputWords) :
              TooWide(w) => \E i \in 1..Len(lines) : LineText(i) = w /\ IsOneInputWord(i)

\* a text wrapped into a two-word line followed by a word wider than maxWidth
C3_Witness ==
    /\ op = "drawJustifiedText"
    /\ Len(lines) >= 2
    /\ \E i \in 1..Len(lines) : Len(lines[i]) >= 2
    /\ \E i \in 1..Len(lines) : TooWide(LineText(i))

\* the lines of the operation joined with single spaces
JoinedLines == Join([i \in 1..Len(lines) |-> LineText(i)])

\* C4: joining the lines produced by the wrap operation with single spaces
\* yields exactly the whitespace-normalized input (runs of whitespace
\* collapsed to one space, ends trimmed).
C4_RejoinIsNormalizedInput ==
    op # "none" => JoinedLines = NormalizeSpacing(text)

\* the drawText calls made for line i
DrawnAtLine(i) ==
    SelectSeq(drawn, LAMBDA d : d.y = FlowTop - (i - 1) * DefaultLineSpacing)

\* line i is not the last line and has at least two words
IsJustifiedLine(i) == i < Len(lines) /\ Len(lines[i]) >= 2

\* the words of line i start at x and the last one ends at x + maxWidth
FillsMaxWidth(i) ==
    LET ops  == DrawnAtLine(i)
        last == ops[Len(ops)]
    IN  /\ Len(ops) = Len(lines[i])
        /\ \A j \in 1..Len(ops) : ops[j].text = lines[i][j]
        /\ ops[1].x = Num(FlowLeftMargin)
        /\ RAdd(last.x, widthOfTextAtSize(last.text, DefaultFontSize, kern))
             = Num(FlowLeftMargin + maxWidth)

\* line i is drawn as one run at x
NaturalSpacing(i) ==
    DrawnAtLine(i) = <<DrawText(Join(lines[i]), Num(FlowLeftMargin),
                                FlowTop - (i - 1) * DefaultLineSpacing)>>

\* C5: on every justified line (not the last, at least two words) the first
\* word starts at x and the last word ends exactly at x + maxWidth; the last
\* line of a paragraph is drawn with natural spacing.
C5_JustifiedLinesFillWidth ==
    Justifying =>
        \A i \in 1..Len(lines) :
            /\ IsJustifiedLine(i) => FillsMaxWidth(i)
            /\ i = Len(lines) => NaturalSpacing(i)

(***************************************************************************)
(* Page breaks, tables, images and running decorations.                    *)
(***************************************************************************)
\* a step from a call of checkPageOverflow: the frame of the call
PageBreakFrame ==
    pc \in DOMAIN MinSpaceNeeded =>
        IF yPos >= MinSpaceNeeded[pc]
        THEN pages' = pages /\ currentPage' = currentPage /\ yPos' = yPos
        ELSE /\ Len(pages') = Len(pages) + 1
             /\ SubSeq(pages', 1, Len(pages)) = pages
             /\ currentPage' = Len(pages')
             /\ yPos' = FlowTop

\* C6: a page-break check made with the cursor at or above the room asked for
\* leaves the pages, the current page and the cursor as they were; one made
\* with the cursor below it adds exactly one page, makes it the current page
\* and puts the cursor at the top of content, whatever cursor and room were.
C6_PageBreakFrame == [][PageBreakFrame]_vars

\* a check has just started the third page of a document
C6_Witness ==
    /\ pc = "section5"
    /\ Len(pages) = 3
    /\ currentPage = 3
    /\ yPos = FlowTop

TableBlocks == {"structureTable", "cashFlowTable", "flowStructureTable", "flowCashFlowTable"}

\* positions on the page of the operations of a kind that belong to a block
OpsOf(page, kind, block) ==
    {i \in DOMAIN page : page[i].kind = kind /\ page[i].block = block}

\* rows and columns of a table, counted from its cell texts
RowCount(page, block) == Cardinality({page[i].y : i \in OpsOf(page, "text", block)})

ColumnCount(page, block) == Cardinality({page[i].x : i \in OpsOf(page, "text", block)})

HorizontalDividers(page, block) == {i \in OpsOf(page, "line", block) : page[i].y = page[i].y2}

VerticalDividers(page, block) == {i \in OpsOf(page, "line", block) : page[i].x = page[i].x2}

\* C7: every table drawn with R rows and C columns has exactly R-1 horizontal
\* dividers, exactly C-1 vertical dividers and exactly one border rectangle,
\* and no divider lies on or below the bottom edge of the last row.
C7_TableDividers ==
    \A p \in DOMAIN pages : \A block \in TableBlocks :
        OpsOf(pages[p], "text", block) # {} =>
            /\ Cardinality(HorizontalDividers(pages[p], block)) = RowCount(pages[p], block) - 1
            /\ Cardinality(VerticalDividers(pages[p], block)) = ColumnCount(pages[p], block) - 1
            /\ Cardinality(OpsOf(pages[p], "rect", block)) = 1
            /\ \A r \in OpsOf(pages[p], "rect", block) :
                   \A d \in HorizontalDividers(pages[p], block) : pages[p][d].y > pages[p][r].y

AllImagesFail ==
    request.found /\ ~request.coverFile /\ ~request.logoFile /\ ~request.signatureFile

ImagesOn(page) == {i \in DOMAIN page : page[i].kind = "image"}

\* C8: a request for a stored proposal whose three image files all fail to
\* load gets no failure response from the loads and ends with the success
\* response carrying a non-empty document, whose cover page is the text-only
\* title block and on which no image is drawn on any page.
C8_ImagesFailStillSucceeds ==
    AllImagesFail =>
        /\ pc \in {"loadLogo", "loadSignature", "cover", "page1"} => response = NoResponse
        /\ pc = "done" =>
              /\ response.status = 200
              /\ Len(response.document) > 0
              /\ OpsOf(response.document[1], "text", "coverTitle") # {}
              /\ \A p \in DOMAIN response.document : ImagesOn(response.document[p]) = {}

\* the image loads themselves: all three failed, nothing was thrown, and the
\* cover drawn is the title block
C8_LoadsAreCaught ==
    (AllImagesFail /\ pc = "page1") =>
        /\ response = NoResponse
    /\ sent = 0
        /\ ~coverImage.loaded /\ ~logoImage.loaded /\ ~signatureImage.loaded
        /\ pages = <<CoverPage(Missing)>>

\* baseline of the first line of the footer block
FooterTop == 70

AboveFooter(drawing) ==
    IF drawing.kind = "image" THEN RLess(Num(FooterTop), drawing.y)
    ELSE drawing.y > FooterTop /\ drawing.y2 > FooterTop

\* C9: on every content page, every text, line, rectangle and image that is
\* not the footer itself lies above the top of the footer block, for every
\* number of address lines and every line count of the wrapped paragraphs.
C9_ContentAboveFooter ==
    \A p \in 2..Len(pages) : \A i \in DOMAIN pages[p] :
        pages[p][i].block # "footer" => AboveFooter(pages[p][i])

FooterLineAt(page, x, y) ==
    \E i \in OpsOf(page, "text", "footer") : page[i].x = x /\ page[i].y = y /\ page[i].size = 8

\* C10: every content page bears, from the moment it is started, the four
\* footer lines at the same positions, and the logo whenever the logo image
\* was loaded; without the logo image the footer is drawn all the same.
C10_RunningDecorations ==
    \E leftMargin \in {RouteLeftMargin, FlowLeftMargin} :
        \A p \in 2..Len(pages) :
            /\ \A y \in {70, 60, 50, 40} : FooterLineAt(pages[p], leftMargin, y)
            /\ logoImage.loaded <=> OpsOf(pages[p], "image", "logo") # {}

(***************************************************************************)
(* Page starts, document shape, empty text, unencodable text.              *)
(***************************************************************************)
\* positions on the page of what is drawn after the running decorations
BodyOps(page) == {i \in DOMAIN page : page[i].block \notin {"footer", "logo"}}

Least(S) == CHOOSE i \in S : \A j \in S : i <= j

\* y of the first drawing on the page that is not a running decoration
FirstDrawingY(page) == page[Least(BodyOps(page))].y

\* C11: the first drawing position is the same y on every content page of a
\* document: each page start resets the cursor to one fixed top-of-content value.
C11_SameTopOfContent ==
    \A p, q \in 2..Len(pages) :
        (BodyOps(pages[p]) # {} /\ BodyOps(pages[q]) # {}) =>
            FirstDrawingY(pages[p]) = FirstDrawingY(pages[q])

\* lines of the executive summary of the scenario record (150000 / 72 / 3):
\* wrapText in the three-page route, drawJustifiedText in the page-flow variant
RouteScenarioSummaryLines == 5

FlowScenarioLines == 3

\* the request is for the stored scenario record
ScenarioRequest ==
    /\ request.found
    /\ request.textEncodable
    /\ request.headerEncodable
    /\ IF "conclusionLines" \in DOMAIN request
       THEN /\ request.summaryLines = FlowScenarioLines
            /\ request.conclusionLines = FlowScenarioLines
       ELSE request.summaryLines = RouteScenarioSummaryLines

IsCoverPage(page) ==
    /\ OpsOf(page, "text", "coverTitle") # {} \/ OpsOf(page, "image", "coverImage") # {}
    /\ OpsOf(page, "text", "footer") = {}

BearsFooter(page) ==
    \E leftMargin \in {RouteLeftMargin, FlowLeftMargin} :
        \A y \in {70, 60, 50, 40} : FooterLineAt(page, leftMargin, y)

\* C12: the document returned for the scenario record is a cover page, first,
\* followed by at least three content pages, each bearing the footer block.
C12_ScenarioDocumentShape ==
    (ScenarioRequest /\ pc = "done") =>
        /\ response.status = 200
        /\ Len(response.document) >= 1 + 3
        /\ IsCoverPage(response.document[1])
        /\ \A p \in 2..Len(response.document) :
               /\ ~IsCoverPage(response.document[p])
               /\ BearsFooter(response.document[p])

\* C13: drawJustifiedText called with a text that is empty after whitespace
\* normalization produces zero lines, draws nothing and returns the y it was given.
C13_EmptyTextDrawsNothing ==
    (op = "drawJustifiedText" /\ NormalizeSpacing(text) = <<>>) =>
        /\ lines = <<>>
        /\ drawn = <<>>
        /\ yOut = FlowTop

\* C14: a request for a stored proposal whose client name, date or address has
\* a character the font cannot encode still ends with the success response
\* carrying the document; it never ends in the failure response.
C14_UnencodableTextStillGenerates ==
    (request.found /\ ~request.textEncodable /\ pc = "done") =>
        /\ response.status = 200
        /\ Len(response.document) > 0

(***************************************************************************)
(* Validation, responses, concurrency.                                     *)
(***************************************************************************)
PositiveInputs(p) ==
    /\ p.investmentAmount # Undefined
    /\ RPositive(p.investmentAmount)
    /\ p.timeHorizon > 0

\* C15: every stored proposal, and so every proposal the PDF route reads, has
\* investmentAmount > 0 and timeHorizon > 0; a create request whose
\* investmentAmount or timeHorizon is not positive gets status 400.
C15_StoredProposalsArePositive ==
    /\ \A i \in DOMAIN store : PositiveInputs(store[i])
    /\ (lookup.read /\ lookup.found) => PositiveInputs(lookup.proposal)
    /\ (lastCreate.status # 0 /\ ~PositiveInputs(lastCreate.body)) => lastCreate.status = 400

\* a content page of the three-page route is finished: the last drawing step,
\* the footer 20 from the bottom, has been made on it
PageFinished(page) ==
    \A y \in {50, 40, 30, 20} :
        \E i \in OpsOf(page, "text", "footer") : page[i].x = 165 /\ page[i].y = y

\* C16: a PDF request gets no response before the handler ends and exactly one
\* when it ends: 404 and no document built when the proposal is not stored;
\* else the success response with the whole finished document, or, when a step
\* threw, the failure response with an error and a diagnostic message and
\* without any part of the document.
C16_ExactlyOneResponse ==
    /\ pc # "done" => sent = 0 /\ response = NoResponse
    /\ pc = "done" =>
          /\ sent = 1
          /\ response.status \in {404, 200, 500}
          /\ response.status = 404 <=> ~request.found
          /\ response.status = 404 => pages = <<>>
          /\ response.status = 200 =>
                /\ request.textEncodable /\ request.headerEncodable
                /\ response.document = pages
                /\ Len(response.document) = 1 + 3
                /\ \A p \in 2..Len(response.document) : PageFinished(response.document[p])
          /\ response.status = 500 =>
                /\ ~(request.textEncodable /\ request.headerEncodable)
                /\ DOMAIN response = {"status", "error", "details"}
                /\ response.error # "" /\ response.details # ""

\* a request that threw after pages were drawn has got the failure response
C16_Witness ==
    /\ pc = "done"
    /\ request.found
    /\ response.status = 500
    /\ Len(pages) >= 2

(***************************************************************************)
(* Claims about requests served at the same time.                          *)
(***************************************************************************)
\* the same drawing operation: kind and block first, the coordinates of two
\* operations of one kind are of one type
SameOp(a, b) ==
    /\ a.kind = b.kind
    /\ a.block = b.block
    /\ a.x = b.x /\ a.y = b.y /\ a.x2 = b.x2 /\ a.y2 = b.y2
    /\ a.size = b.size

SamePage(p, q) ==
    /\ Len(p) = Len(q)
    /\ \A i \in 1..Len(p) : SameOp(p[i], q[i])

SameDocument(d, e) ==
    /\ Len(d) = Len(e)
    /\ \A i \in 1..Len(d) : SamePage(d[i], e[i])

\* the same position, document, page, cursor and response
SameLocals(h, a) ==
    /\ h.pc = a.pc
    /\ SameDocument(h.pages, a.pages)
    /\ h.currentPage = a.currentPage
    /\ h.yPos = a.yPos
    /\ h.sent = a.sent
    /\ h.response.status = a.response.status
    /\ h.response.status = 200 => SameDocument(h.response.document, a.response.document)

\* h is a state the invocation a passes through when it runs with no other
\* request in progress
RECURSIVE OnOwnRun(_, _)
OnOwnRun(h, a) ==
    \/ SameLocals(h, a)
    \/ a.pc # "done" /\ OnOwnRun(h, HandlerStep(a))

\* C17: two PDF requests whose steps interleave are independent: each
\* invocation has, at every point, the document, page, cursor and response it
\* has when it runs alone from the same request, and the stored proposals are
\* never modified by the generation.
C17_RequestsAreIndependent ==
    /\ store = StoredProposals
    /\ \A r \in HandlerIds :
          OnOwnRun(handlers.of[r],
                   HandlerStart(handlers.of[r].variant, handlers.of[r].request))

\* an invocation of the three-page route and one of the page-flow variant are
\* both part-way, the first after the second, each with pages of its own
C17_Witness ==
    /\ handlers.of[1].variant = "route" /\ handlers.of[2].variant = "flow"
    /\ handlers.of[1].pc = "page3" /\ handlers.of[2].pc = "check3"
    /\ handlers.recent = 1
    /\ Len(handlers.of[1].pages) = 3 /\ Len(handlers.of[2].pages) = 2

(***************************************************************************)
(* Claims about the cover page.                                            *)
(***************************************************************************)
\* the cover image as drawn: a single image, its width and height each the
\* pixel size times the one scale, no wider and no higher than the page and
\* as wide or as high as the page, the margins left and right equal, the
\* margins below and above equal, and no side off the page
CoverImageFitted(cover) ==
    /\ Len(cover) = 1
    /\ cover[1].kind = "image" /\ cover[1].block = "coverImage"
    /\ LET placed       == CoverPlacement(coverImage)
           scaledWidth  == BinSub(cover[1].x2, cover[1].x)
           scaledHeight == BinSub(cover[1].y2, cover[1].y)
       IN  /\ scaledWidth = FMulInt(placed.scale, coverImage.width)
           /\ scaledHeight = FMulInt(placed.scale, coverImage.height)
           /\ BinLeq(scaledWidth, pageWidth)
           /\ BinLeq(scaledHeight, pageHeight)
           /\ scaledWidth = pageWidth \/ scaledHeight = pageHeight
           /\ cover[1].x = BinSub(pageWidth, cover[1].x2)
           /\ cover[1].y = BinSub(pageHeight, cover[1].y2)
           /\ ~cover[1].x.neg /\ ~cover[1].y.neg
           /\ BinLeq(cover[1].x2, pageWidth) /\ BinLeq(cover[1].y2, pageHeight)

TitleBlockOnly(cover) ==
    /\ OpsOf(cover, "text", "coverTitle") # {}
    /\ ImagesOn(cover) = {}

\* C18: once the cover page is drawn, a loaded cover image is on it scaled by
\* one factor to the largest size that fits the page (scaledWidth <= 595.28,
\* scaledHeight <= 841.89, one of them equal), centered and entirely on the
\* page; with no cover image the page has the text-only title block; the page
\* has exactly one of the two.
C18_CoverScaledToFit ==
    pages # <<>> =>
        /\ coverImage.loaded => CoverImageFitted(pages[1])
        /\ ~coverImage.loaded => TitleBlockOnly(pages[1])
        /\ (OpsOf(pages[1], "image", "coverImage") # {})
              # (OpsOf(pages[1], "text", "coverTitle") # {})

(***************************************************************************)
(* Claims about the printed figures.                                       *)
(***************************************************************************)
WellPrinted(figure) ==
    /\ figure.what = "currency" => figure.before = "R" /\ figure.grouped
    /\ figure.what = "percentage" => figure.decimals = 2
    /\ figure.what = "rate" => figure.decimals = 3

AllWellPrinted(figures) == \A i \in DOMAIN figures : WellPrinted(figures[i])

\* C19: every figure the route prints in the highlights, the investment
\* structure table and the cash flow table is well printed: a currency value
\* with the currency prefix and grouping separators, a percentage with
\* exactly two decimals, a dividend rate with exactly three decimals.
C19_FiguresWellPrinted ==
    pdfFigures.computed =>
        /\ AllWellPrinted(Highlights(proposal, pdfFigures))
        /\ AllWellPrinted(TableData(proposal, pdfFigures))
        /\ AllWellPrinted(CashFlowData(proposal, pdfFigures))

(***************************************************************************)
(* Claims about the greediness of the wrap loops.                          *)
(***************************************************************************)
\* the word line i starts with
FirstWord(i) == IF Justifying THEN Head(lines[i]) ELSE Head(Split(lines[i]))

\* C20: wrapping is greedy and maximal: every line that is followed by
\* another line is non-empty and, extended by one space and the first word of
\* the following line, measures wider than maxWidth; a new line is started
\* only when the next word does not fit on the non-empty current line.
C20_GreedyMaximalLines ==
    op # "none" =>
        \A i \in 1..(Len(lines) - 1) :
            /\ LineText(i) # <<>>
            /\ TooWide(LineText(i) \o <<Space>> \o FirstWord(i + 1))

\* drawJustifiedText has broken a text after a line of more than one word,
\* before a word whose pair with the space is kerned
C20_Witness ==
    /\ op = "drawJustifiedText"
    /\ kern # 0
    /\ Len(lines) = 2
    /\ Len(lines[1]) > 1
    /\ Head(FirstWord(2)) = "W"

(***************************************************************************)
(* Claims about which lines are justified.                                 *)
(***************************************************************************)
\* what the gap after word j of the drawn words is wider than a space
ExtraSpaceAfter(ops, j) ==
    RSub(RSub(RSub(ops[j + 1].x, ops[j].x),
              widthOfTextAtSize(ops[j].text, DefaultFontSize, kern)),
         widthOfTextAtSize(<<Space>>, DefaultFontSize, kern))

\* line i is drawn word by word from x, every gap at least a space wide, every
\* word starting right of the word before it and not before that word ends
DrawnJustified(i) ==
    LET ops == DrawnAtLine(i)
    IN  /\ Len(ops) = Len(lines[i])
        /\ \A j \in 1..Len(ops) : ops[j].text = lines[i][j]
        /\ ops[1].x = Num(FlowLeftMargin)
        /\ \A j \in 1..(Len(ops) - 1) :
              /\ ~RLess(ExtraSpaceAfter(ops, j), Num(0))
              /\ RLess(ops[j].x, ops[j + 1].x)
              /\ ~RLess(ops[j + 1].x,
                        RAdd(ops[j].x, widthOfTextAtSize(ops[j].text, DefaultFontSize, kern)))

\* C21: drawJustifiedText justifies a line if and only if it is not the last
\* line and has more than one word; the last line and every single-word line
\* are one left-aligned run at x with natural spacing; on a justified line the
\* extra space per gap is not negative, the word start positions strictly
\* increase and no word overlaps the next.
C21_JustifiedIffInnerMultiWord ==
    op = "drawJustifiedText" =>
        \A i \in 1..Len(lines) :
            IF IsJustifiedLine(i) THEN DrawnJustified(i) ELSE NaturalSpacing(i)

\* a line of more than one word is followed by another line and the font
\* kerns a pair of the text
C21_Witness ==
    /\ op = "drawJustifiedText"
    /\ kern # 0
    /\ \E i \in 1..Len(lines) : IsJustifiedLine(i) /\ Len(DrawnAtLine(i)) >= 2
    /\ Len(lines[Len(lines)]) = 1

(***************************************************************************)
(* Claims about the cursor after a table.                                  *)
(***************************************************************************)
\* what is drawn on the page after the border of the table, the table's own
\* rows and dividers aside
DrawnAfterTable(page, r) ==
    {i \in DOMAIN page : i > r /\ page[i].block # page[r].block /\ page[i].kind # "image"}

\* C22: whatever is drawn on a page after a table is at or below the bottom
\* edge of that table (table top minus rows times row height): no later
\* heading, paragraph or table is drawn inside the box of an earlier table.
C22_LaterBlocksBelowTable ==
    \A p \in DOMAIN pages : \A block \in TableBlocks :
        \A r \in OpsOf(pages[p], "rect", block) :
            \A i \in DrawnAfterTable(pages[p], r) :
                pages[p][i].y <= pages[p][r].y /\ pages[p][i].y2 <= pages[p][r].y

(***************************************************************************)
(* Claims about the geometry of the tables of the three-page route.        *)
(***************************************************************************)
\* col1Width, col2Width and colWidths of the two tables
TableColumnWidths ==
    [structureTable |-> <<120, 300>>, cashFlowTable |-> <<40, 75, 75, 75, 60, 95>>]

\* left edge of column c of a table whose origin is at x; c one more than the
\* number of columns gives the right edge of the table
ColumnLeft(block, x, c) == x + Sum(SubSeq(TableColumnWidths[block], 1, c - 1))

\* the column a cell text of the table is in, counted from the distinct x of
\* the cell texts
ColumnOf(page, block, i) ==
    Cardinality({page[j].x : j \in {k \in OpsOf(page, "text", block) : page[k].x <= page[i].x}})

\* the table whose border is operation r of the page: border as wide as the
\* columns, vertical dividers at the column edges, horizontal dividers from
\* the left to the right edge of the border, cell texts in their columns and
\* everything within the border
TableWithinBorder(page, block, r) ==
    LET border  == page[r]
        columns == Len(TableColumnWidths[block])
    IN  /\ border.x2 = ColumnLeft(block, border.x, columns + 1)
        /\ \A d \in VerticalDividers(page, block) :
              \E c \in 2..columns : page[d].x = ColumnLeft(block, border.x, c)
        /\ \A d \in HorizontalDividers(page, block) :
              page[d].x = border.x /\ page[d].x2 = border.x2
        /\ \A t \in OpsOf(page, "text", block) :
              /\ ColumnLeft(block, border.x, ColumnOf(page, block, t)) <= page[t].x
              /\ page[t].x < ColumnLeft(block, border.x, ColumnOf(page, block, t) + 1)
        /\ \A i \in OpsOf(page, "line", block) \cup OpsOf(page, "text", block) :
              /\ border.x <= page[i].x /\ page[i].x2 <= border.x2
              /\ border.y <= page[i].y /\ page[i].y <= border.y2
              /\ border.y <= page[i].y2 /\ page[i].y2 <= border.y2

\* C23: for each table of the route the border spans the table from its
\* origin, every vertical divider is at origin x plus a cumulative sum of
\* column widths, every horizontal divider runs from the left to the right
\* edge of the border, every cell text starts in its own column, and no
\* divider or cell text lies outside the border.
C23_TableInsideBorder ==
    \A p \in DOMAIN pages : \A block \in DOMAIN TableColumnWidths :
        \A r \in OpsOf(pages[p], "rect", block) : TableWithinBorder(pages[p], block, r)

(***************************************************************************)
(* Claims about sanitizeText.                                              *)
(***************************************************************************)
\* what the claim says of one character
SanitizedChar(c) ==
    IF c \in BulletSymbols THEN <<"bullet">>
    ELSE IF c = "telephone" THEN <<"T", "e", "l", ":">>
    ELSE IF c = "envelope" THEN <<"E", "m", "a", "i", "l", ":">>
    ELSE IF c = "globe" THEN <<"W", "e", "b", "s", "i", "t", "e", ":">>
    ELSE IF c \in NonAscii THEN <<>>
    ELSE <<c>>

RECURSIVE SanitizedAsClaimed(_)
SanitizedAsClaimed(str) ==
    IF str = <<>> THEN <<>> ELSE SanitizedChar(Head(str)) \o SanitizedAsClaimed(Tail(str))

\* C24: the text drawn for a line is the line with each arrow, radio-button,
\* check-box and check-mark symbol replaced by a bullet, each telephone,
\* envelope and globe symbol by Tel:, Email: and Website:, every other
\* non-ASCII character removed and the ASCII characters unchanged and in
\* order; sanitizing it again changes nothing.
C24_SanitizeReplacesSymbols ==
    op = "sanitizeText" =>
        /\ drawn[1].text = SanitizedAsClaimed(text)
        /\ sanitizeText(drawn[1].text) = drawn[1].text

(***************************************************************************)
(* Claims about the signature block of page 3 (three-page route).          *)
(***************************************************************************)
\* the blocks of page 3 drawn from the conclusion on, up to the signature block
ClosingBlocks == {"conclusion", "thankYou", "signatureBlock"}

ClosingTexts(page) == {i \in DOMAIN page : page[i].kind = "text" /\ page[i].block \in ClosingBlocks}

\* the six lines of the signature block, in drawing order
SignatureLines(page) == OpsOf(page, "text", "signatureBlock")

\* the signature image lies under "Kind Regards" and over the name
SignatureBetween(page) ==
    \A s \in OpsOf(page, "image", "signature") :
        \A i \in SignatureLines(page) :
            IF i < s THEN RLess(page[s].y2, Num(page[i].y + 1))
                     ELSE RLess(Num(page[i].y - 1), page[s].y)

\* most lines of a conclusion: the two amounts each on a line of their own
MaxConclusionLines == 7

\* page 3 as drawn with a conclusion of n lines
ClosingPage(n) == Run(Page3ScriptWith(signatureImage, n), 780).ops

\* C25: on page 3, with or without a signature image, all six lines of the
\* signature block are drawn (no room-above-footer guard suppresses one), as
\* are all lines of the conclusion and of the thank-you text, and the cursor
\* never moves up: in drawing order the lines from the conclusion on never
\* rise, so the clamp to 80 did not move the cursor over drawn content; the
\* same holds of the page for every length the conclusion can have.
C25_SignatureBlockDrawn ==
    Len(pages) >= 4 =>
        LET page3 == pages[4]
        IN  /\ Cardinality(SignatureLines(page3)) = 6
            /\ Cardinality(OpsOf(page3, "text", "conclusion")) = 1 + ConclusionLines
            /\ Cardinality(OpsOf(page3, "text", "thankYou")) = ThankYouLines
            /\ \A i, j \in ClosingTexts(page3) : i < j => page3[i].y >= page3[j].y
            /\ \A i \in ClosingTexts(page3) : page3[i].y >= 80
            /\ SignatureBetween(page3)
            /\ \A n \in 1..MaxConclusionLines :
                   /\ Cardinality(SignatureLines(ClosingPage(n))) = 6
                   /\ Cardinality(OpsOf(ClosingPage(n), "text", "conclusion")) = 1 + n
                   /\ \A i \in ClosingTexts(ClosingPage(n)) : ClosingPage(n)[i].y >= 80

C25_Witness ==
    /\ pc = "done"
    /\ Len(pages) = 4
    /\ signatureImage.loaded
    /\ OpsOf(pages[4], "image", "signature") # {}
    /\ Cardinality(SignatureLines(pages[4])) = 6

(***************************************************************************)
(* Claims about the number of footers on a page.                           *)
(***************************************************************************)
\* C26: in the document sent, every content page carries exactly one footer
\* block, that is exactly four footer text lines, and the cover page carries
\* no footer text.
C26_OneFooterPerPage ==
    (pc = "done" /\ response.status = 200) =>
        \A i \in 1..Len(response.document) :
            LET page == response.document[i]
            IN  Cardinality(OpsOf(page, "text", "footer")) = (IF i = 1 THEN 0 ELSE 4)

(***************************************************************************)
(* Claims about the proposal form.                                         *)
(***************************************************************************)
\* the PDF requests issued by click c
RequestsOf(c) == {r \in DOMAIN pdfRequests : pdfRequests[r].click = c}

\* the first click, made on a form that has saved nothing, on Preview or Generate
FreshClick(c) ==
    /\ c = 1
    /\ clicks[c].handler \in {"handlePreview", "handleGenerate"}
    /\ clicks[c].currentProposalId = Null

\* C27: when the handler of a Generate or Preview click on a fresh valid form
\* has finished, the proposal was saved and exactly one PDF request was
\* issued by the click, for the id that save returned.
C27_FreshClickSavesThenRequests ==
    \A c \in DOMAIN clicks :
        (FreshClick(c) /\ clicks[c].pc = "done") =>
            /\ getProposal(store, clicks[c].saved).found
            /\ Cardinality(RequestsOf(c)) = 1
            /\ \A r \in RequestsOf(c) : pdfRequests[r].proposalId = clicks[c].saved

\* C28: every PDF request of the form is for a stored proposal whose fields
\* are the form values at the click, and after a reset no proposal id is
\* remembered.
C28_RequestsMatchForm ==
    /\ \A r \in DOMAIN pdfRequests :
          LET read == getProposal(store, pdfRequests[r].proposalId)
          IN  /\ read.found
              /\ read.proposal = createProposal(pdfRequests[r].values, pdfRequests[r].proposalId)
    /\ lastEvent = "reset" => currentProposalId = Null

(***************************************************************************)
(* Claims about the in-memory storage.                                     *)
(***************************************************************************)
StoredIds(proposals) == {proposals[i].id : i \in DOMAIN proposals}

\* what a list read returned
Listed == lookup # NoLookup /\ ~lookup.read

\* the ids are distinct, every stored record is what getProposal returns for
\* its id, an id never created is not found, and the reads made returned
\* created records: the list every record once in creation order
StorageReadsCreated ==
    /\ \A i, j \in DOMAIN store : i # j => store[i].id # store[j].id
    /\ \A i \in DOMAIN store :
          getProposal(store, store[i].id) = [read |-> TRUE, found |-> TRUE, proposal |-> store[i]]
    /\ \A id \in Ids \ StoredIds(store) : ~getProposal(store, id).found
    /\ (lookup.read /\ lookup.found) => \E i \in DOMAIN store : store[i] = lookup.proposal
    /\ Listed => \E n \in 0..Len(store) : lookup.all = SubSeq(store, 1, n)

\* a step removes and changes nothing stored; what it adds is the record of
\* the accepted create request under an id not used before; a list read
\* returns the whole store
StorageOnlyGrows ==
    /\ \A i \in DOMAIN store : i \in DOMAIN store' /\ store'[i] = store[i]
    /\ Len(store') <= Len(store) + 1
    /\ Len(store') = Len(store) + 1 =>
          /\ lastCreate'.status = 200
          /\ store'[Len(store')].id \notin StoredIds(store)
          /\ store'[Len(store')] = createProposal(lastCreate'.body, store'[Len(store')].id)
    /\ (lookup' # lookup /\ lookup' # NoLookup /\ ~lookup'.read) => lookup'.all = store

\* C29: createProposal gives every record an id different from all earlier
\* ids; getProposal(id) returns exactly the record created under id and
\* nothing for any other id; getAllProposals returns every created record
\* once in creation order; no operation changes or removes a stored proposal.
C29_StorageKeepsRecords == [](StorageReadsCreated) /\ [][StorageOnlyGrows]_vars

C29_Witness ==
    /\ Len(store) = 2
    /\ Listed
    /\ Len(lookup.all) = 2
    /\ lookup.all[1].id # lookup.all[2].id

(***************************************************************************)
(* Claims about the live panel against the PDF.                            *)
(***************************************************************************)
\* C30: for a valid record, the target value and the total profit of the
\* live calculations panel equal the target value and the total profit the
\* PDF route computes for the same record.
C30_PanelMatchesPdf ==
    (pdfFigures.computed /\ panelFigures.computed /\ proposal \in ProposalRecords) =>
        /\ panelFigures.targetValue = pdfFigures.targetValue
        /\ panelFigures.totalProfit = pdfFigures.totalProfit

================================================================
